---- MODULE Spec2Model ----
(***************************************************************************)
(* Channel selection of discord_exporter.py: the checkbox UI               *)
(* (DiscordExporter._checkbox_ui), the display list it is built on, and    *)
(* the line-oriented selector (DiscordExporter._select_channels_cli).      *)
(*                                                                         *)
(* Python lists are sequences; list positions keep the source's 0-based    *)
(* values (original_index, selected_indices), read through At(s, i).       *)
(***************************************************************************)
EXTENDS Integers, Sequences, FiniteSets, TLC

VARIABLES
    channels,                   \* the catalog returned by load_channels()
    config,                     \* the contents of config.json (load_config)
    pc,                         \* where the selection call is blocked
    display_items,              \* _checkbox_ui: display_items
    channel_map,                \* _checkbox_ui: channel_map
    total_pages,                \* _checkbox_ui: total_pages
    checked,                    \* _checkbox_ui: checked
    all_checked,                \* _checkbox_ui: all_checked
    current_page,               \* _checkbox_ui: current_page
    current_pos,                \* _checkbox_ui: current_pos
    key,                        \* _checkbox_ui: key, the last key dispatched
    response,                   \* the last answer at the y/N/s prompt
    typed,                      \* characters typed at the current input()
    message,                    \* what the last rejected line was answered
    outcome,                    \* how the selection call ended
    result,                     \* the list handed back to the caller
    hist,                       \* history: the toggle operations of the session
    terminal,                   \* the screen: curses.wrapper holds it or not
    raised,                     \* the exception that left the selection call
    thrown,                     \* the last exception raised inside the call
    ui_entries,                 \* history: calls of _checkbox_ui
    cli_entries,                \* history: calls of _select_channels_cli
    confirm,                    \* _select_channels_cli: confirm
    fields,                     \* _config_form_ui: the value of each field
    current_field,              \* _config_form_ui: current_field
    editing,                    \* _config_form_ui: editing
    edit_text                   \* _config_form_ui: edit_text

vars == <<channels, config, pc, display_items,
          channel_map, total_pages, checked, all_checked, current_page,
          current_pos, key, response, typed, message, outcome, result,
          hist, terminal, raised, thrown, ui_entries, cli_entries,
          confirm, fields, current_field, editing, edit_text>>

form == <<fields, current_field, editing, edit_text>>

session == <<display_items, channel_map, total_pages, checked, all_checked,
             current_page, current_pos>>

env == <<terminal, raised, thrown, ui_entries, cli_entries>>

----------------------------------------------------------------------------
(* Bounds of the model *)

MaxItems == 3       \* catalogs of every category pattern up to this length
MaxHist == 2        \* toggle operations kept in hist before it overflows
MaxLineLen == 4     \* free typing at input() up to this many characters

(* Program constants *)

ITEMS_PER_PAGE == 15
FIRST_PAGE_ITEMS == 12
WARNING_THRESHOLD == 50000

----------------------------------------------------------------------------
(* Values *)

None == "<None>"                   \* Python None (JSON null)
UNCATEGORIZED == "Uncategorized"   \* the literal U+672A U+5206 U+985E
ZATSUDAN == "Zatsudan"             \* a label of U+96D1 U+8AC7
Unset == <<"unset">>               \* a local variable not assigned yet
Untracked == <<"untracked">>       \* hist is not recorded
Overflow == <<"overflow">>         \* more than MaxHist operations happened

At(s, i) == s[i + 1]

Min(a, b) == IF a < b THEN a ELSE b

RECURSIVE SumSeq(_)
SumSeq(s) == IF s = <<>> THEN 0 ELSE Head(s) + SumSeq(Tail(s))

\* sum(checked): the number of True flags
CountChecked(flags) == Cardinality({i \in DOMAIN flags : flags[i]})

\* all(checked)
AllOf(flags) == \A i \in DOMAIN flags : flags[i]

\* ord() of the characters of the category labels the model uses
CodePoints(label) ==
    CASE label = "Announcements" ->
             <<65, 110, 110, 111, 117, 110, 99, 101, 109, 101, 110, 116, 115>>
      [] label = "General" -> <<71, 101, 110, 101, 114, 97, 108>>
      [] label = "Archive" -> <<65, 114, 99, 104, 105, 118, 101>>
      [] label = "Voice" -> <<86, 111, 105, 99, 101>>
      [] label = UNCATEGORIZED -> <<26410, 20998, 39006>>
      [] label = ZATSUDAN -> <<38609, 35527>>

\* str.__lt__: lexicographic order of the code points
RECURSIVE SeqLess(_, _)
SeqLess(a, b) ==
    IF b = <<>> THEN FALSE
    ELSE IF a = <<>> THEN TRUE
    ELSE IF Head(a) # Head(b) THEN Head(a) < Head(b)
    ELSE SeqLess(Tail(a), Tail(b))

StrLess(a, b) == SeqLess(CodePoints(a), CodePoints(b))

\* sorted(keys)
RECURSIVE Sorted(_)
Sorted(S) ==
    IF S = {} THEN <<>>
    ELSE LET m == CHOOSE x \in S : \A y \in S \ {x} : StrLess(x, y)
         IN <<m>> \o Sorted(S \ {m})

\* channel.get('category_name', default)
GetCategoryName(channel, default) ==
    IF "category_name" \in DOMAIN channel THEN channel.category_name
    ELSE default

\* a faulty index: the first position holding a channel of the same category
ListIndexByCategory(chs, channel) ==
    (CHOOSE i \in 1..Len(chs) :
        /\ chs[i].category_name = channel.category_name
        /\ \A j \in 1..(i - 1) :
               chs[j].category_name # channel.category_name) - 1

\* channels.index(channel): the first position holding an equal dict
ListIndex(chs, channel) ==
    (CHOOSE i \in 1..Len(chs) :
        /\ chs[i] = channel
        /\ \A j \in 1..(i - 1) : chs[j] # channel) - 1

----------------------------------------------------------------------------
(* The display list *)

\* the grouping key of _organize_channels_by_category
GroupKey(channel) ==
    LET category_name == GetCategoryName(channel, None)
    IN IF category_name = None THEN UNCATEGORIZED ELSE category_name

\* a faulty grouping: the keys are sorted and nothing is moved to the end
OrganizeSortedOnly(chs) ==
    LET keys == {GroupKey(chs[i]) : i \in 1..Len(chs)}
        members(c) == SelectSeq(chs, LAMBDA ch : GroupKey(ch) = c)
        named == Sorted(keys)
    IN [k \in 1..Len(named) |-> <<named[k], members(named[k])>>]

\* _organize_channels_by_category
OrganizeChannelsByCategory(chs) ==
    LET keys == {GroupKey(chs[i]) : i \in 1..Len(chs)}
        members(c) == SelectSeq(chs, LAMBDA ch : GroupKey(ch) = c)
        named == Sorted(keys \ {UNCATEGORIZED})
        sorted_categories ==
            [k \in 1..Len(named) |-> <<named[k], members(named[k])>>]
    IN IF UNCATEGORIZED \in keys
       THEN Append(sorted_categories, <<UNCATEGORIZED, members(UNCATEGORIZED)>>)
       ELSE sorted_categories

HeaderEntry(category_name) ==
    [type |-> "category_header", category_name |-> category_name]

\* a faulty entry: every channel entry points at the first channel
ChannelEntryFirstIndex(chs, channel) ==
    [type |-> "channel", channel |-> channel, original_index |-> 0]

\* the entry of a channel, with its position in the catalog
ChannelEntry(chs, channel) ==
    [type |-> "channel", channel |-> channel,
     original_index |-> ListIndex(chs, channel)]

RECURSIVE DisplayOf(_, _)
DisplayOf(chs, categories) ==
    IF categories = <<>> THEN <<>>
    ELSE LET category_name == Head(categories)[1]
             category_channels == Head(categories)[2]
         IN <<HeaderEntry(category_name)>>
            \o [k \in 1..Len(category_channels) |->
                    ChannelEntry(chs, category_channels[k])]
            \o DisplayOf(chs, Tail(categories))

\* a faulty builder: the channels of a category are listed last to first
CreateDisplayListReversed(chs) ==
    LET categories == OrganizeChannelsByCategory(chs)
        reversed(members) ==
            [k \in 1..Len(members) |-> members[Len(members) + 1 - k]]
    IN DisplayOf(chs, [c \in 1..Len(categories) |->
                          <<categories[c][1], reversed(categories[c][2])>>])

\* _create_display_list: display_items
CreateDisplayList(chs) == DisplayOf(chs, OrganizeChannelsByCategory(chs))

\* _create_display_list: channel_map (display_index -> channel_index)
CreateChannelMap(items) ==
    [d \in {i \in 0..(Len(items) - 1) : At(items, i).type = "channel"} |->
        At(items, d).original_index]

----------------------------------------------------------------------------
(* Pages and the cursor *)

\* a faulty page count: the remaining entries are divided rounding down
TotalPagesRoundedDown(n) ==
    LET remaining_items == n - FIRST_PAGE_ITEMS
    IN IF remaining_items <= 0 THEN 1
       ELSE 1 + (remaining_items \div ITEMS_PER_PAGE)

TotalPages(n) ==
    LET remaining_items == n - FIRST_PAGE_ITEMS
    IN IF remaining_items <= 0 THEN 1
       ELSE 1 + ((remaining_items + ITEMS_PER_PAGE - 1) \div ITEMS_PER_PAGE)

\* a faulty page start: every page is taken to hold ITEMS_PER_PAGE entries
StartIdxUniform(page) == page * ITEMS_PER_PAGE

StartIdx(page) ==
    IF page = 0 THEN 0
    ELSE FIRST_PAGE_ITEMS + (page - 1) * ITEMS_PER_PAGE

EndIdx(page, n) ==
    IF page = 0 THEN Min(FIRST_PAGE_ITEMS, n)
    ELSE Min(StartIdx(page) + ITEMS_PER_PAGE, n)

\* a faulty search: the All line is not counted on the first page
SelectedIndexNoAllOffset(page, pos, n) ==
    LET i == StartIdx(page) + pos
    IN IF i < EndIdx(page, n) THEN i ELSE -1

\* the display index for which is_selected is true, or -1 when there is none
SelectedIndex(page, pos, n) ==
    LET display_pos == IF page = 0 THEN pos - 1 ELSE pos
        i == StartIdx(page) + display_pos
    IN IF display_pos >= 0 /\ i < EndIdx(page, n) THEN i ELSE -1

OnAll == current_page = 0 /\ current_pos = 0

Target == SelectedIndex(current_page, current_pos, Len(display_items))

----------------------------------------------------------------------------
(* The category header as the render loop draws it *)

\* [ch for ch in channels if ch.get('category_name', <Uncategorized>) == name]
CategoryChannels(chs, category_name) ==
    SelectSeq(chs, LAMBDA ch :
                  GetCategoryName(ch, UNCATEGORIZED) = category_name)

CategoryIndices(chs, category_name) ==
    LET category_channels == CategoryChannels(chs, category_name)
    IN [k \in 1..Len(category_channels) |->
            ListIndex(chs, category_channels[k])]

SelectedInCategory(chs, flags, category_name) ==
    LET category_indices == CategoryIndices(chs, category_name)
    IN Cardinality({k \in 1..Len(category_indices) :
                        At(flags, category_indices[k])})

\* a faulty header: any selected member draws the category as fully selected
RenderHeaderAnySelected(chs, flags, category_name) ==
    LET selected_in_category == SelectedInCategory(chs, flags, category_name)
        total_in_category == Len(CategoryChannels(chs, category_name))
    IN [symbol |-> IF selected_in_category > 0 THEN "all" ELSE "none",
        selected |-> selected_in_category,
        total |-> total_in_category]

RenderHeader(chs, flags, category_name) ==
    LET selected_in_category == SelectedInCategory(chs, flags, category_name)
        total_in_category == Len(CategoryChannels(chs, category_name))
    IN [symbol |-> IF selected_in_category = total_in_category THEN "all"
                   ELSE IF selected_in_category > 0 THEN "some"
                   ELSE "none",
        selected |-> selected_in_category,
        total |-> total_in_category]

----------------------------------------------------------------------------
(* Catalogs: what fetch_and_save_channels writes to channels.json.  Every   *)
(* entry carries its own channel_id and always has the category_name key,   *)
(* null for a channel outside any category.                                 *)

Item(id, category_name, estimated) ==
    [channel_id |-> id, category_name |-> category_name,
     estimated_messages |-> estimated]

MakeCatalog(cats, estimated) ==
    [i \in 1..Len(cats) |-> Item(i, cats[i], estimated)]

SeqsUpTo(S, n) == UNION {[1..k -> S] : k \in 0..n}

CategoryValues == {"Announcements", "General", None}

SmallCatalogs ==
    {MakeCatalog(cats, 30000) : cats \in SeqsUpTo(CategoryValues, MaxItems)}

\* 6 items: "Announcements" with 2, "General" with 3, null with 1
ScenarioGrouped ==
    <<"Announcements", "Announcements", "General", "General", "General", None>>
ScenarioInterleaved ==
    <<"General", None, "Announcements", "General", "Announcements", "General">>
ScenarioReversed ==
    <<None, "General", "General", "Announcements", "General", "Announcements">>

ScenarioCatalogs ==
    {MakeCatalog(ScenarioGrouped, 30000), MakeCatalog(ScenarioInterleaved, 0),
     MakeCatalog(ScenarioReversed, 0)}

\* 8 items in 5 groups: 13 display entries, two pages
PagedCatalog ==
    MakeCatalog(<<"General", None, "Voice", "Announcements", "Archive",
                  "General", None, "Voice">>, 0)

Catalogs == SmallCatalogs \cup ScenarioCatalogs \cup {PagedCatalog}

----------------------------------------------------------------------------
(* Keys *)

CancelKeys == {"q", "Q"}
ConfirmKeys == {"ENTER"}
ToggleKeys == {"SPACE"}
AllKeys == {"a", "A"}
UpKeys == {"KEY_UP", "k"}
DownKeys == {"KEY_DOWN", "j"}
LeftKeys == {"KEY_LEFT", "h"}
RightKeys == {"KEY_RIGHT", "l"}
OtherKeys == {"x"}

Keys == CancelKeys \cup ConfirmKeys \cup ToggleKeys \cup AllKeys \cup UpKeys
        \cup DownKeys \cup LeftKeys \cup RightKeys \cup OtherKeys

\* get_single_key_input: getch().lower()
WarningResponses == {"y", "Y", "s", "n", "\n", "ESC", "x"}

LowerKey(c) == CASE c = "Y" -> "y" [] c = "S" -> "s" [] c = "N" -> "n"
                 [] OTHER -> c

----------------------------------------------------------------------------
(* config.json.  Text values are sequences of characters; the limit is an   *)
(* int or the empty string.                                                  *)

\* dict.get(key, default)
DictGet(d, k, default) == IF k \in DOMAIN d THEN d[k] ELSE default

\* d[key] = value
DictSet(d, k, value) ==
    [x \in DOMAIN d \cup {k} |-> IF x = k THEN value ELSE d[x]]

StrValue(s) == [kind |-> "str", value |-> s]

IntValue(n) == [kind |-> "int", value |-> n]

\* "discord_export.xlsx"
DEFAULT_OUTPUT_FILE ==
    <<"d", "i", "s", "c", "o", "r", "d", "_", "e", "x", "p", "o", "r", "t",
      ".", "x", "l", "s", "x">>

\* load_config without a readable file
DefaultConfig ==
    [token |-> <<>>,
     output_file |-> DEFAULT_OUTPUT_FILE,
     after_date |-> <<>>,
     before_date |-> <<>>,
     limit |-> StrValue(<<>>),
     mode |-> "interactive",
     show_message_count_warning |-> TRUE]

----------------------------------------------------------------------------
(* History of the toggle operations, kept for the end-to-end scenario *)

Record(op) ==
    IF hist = Untracked \/ hist = Overflow THEN hist
    ELSE IF Len(hist) < MaxHist THEN Append(hist, op)
    ELSE Overflow

----------------------------------------------------------------------------
(* Initial states *)

\* nothing of a selection call or of the form exists yet
InitLocals ==
    /\ confirm = Unset
    /\ fields = <<>>
    /\ current_field = 0
    /\ editing = FALSE
    /\ edit_text = <<>>
    /\ display_items = <<>>
    /\ channel_map = <<>>
    /\ total_pages = 0
    /\ checked = <<>>
    /\ all_checked = FALSE
    /\ current_page = 0
    /\ current_pos = 0
    /\ key = "none"
    /\ response = "none"
    /\ typed = <<>>
    /\ message = "none"
    /\ outcome = "Pending"
    /\ result = <<>>
    /\ terminal = "released"
    /\ raised = "none"
    /\ thrown = "none"
    /\ ui_entries = 0
    /\ cli_entries = 0

InitCommon ==
    /\ config = DefaultConfig
    /\ pc = "start"
    /\ InitLocals

Init ==
    /\ channels \in Catalogs
    /\ hist = Untracked
    /\ InitCommon

InitScenario ==
    /\ channels \in ScenarioCatalogs
    /\ hist = <<>>
    /\ InitCommon

----------------------------------------------------------------------------
(* select_channels_interactive and _select_channels_tui up to the first     *)
(* blocking read                                                            *)

TotalEstimated(chs) ==
    SumSeq([i \in 1..Len(chs) |-> chs[i].estimated_messages])

\* curses.wrapper(self._checkbox_ui, channels) up to the first getch()
StartCheckboxUi ==
    /\ display_items' = CreateDisplayList(channels)
    /\ channel_map' = CreateChannelMap(display_items')
    /\ total_pages' = TotalPages(Len(display_items'))
    /\ checked' = [i \in 1..Len(channels) |-> FALSE]
    /\ all_checked' = FALSE
    /\ current_pos' = 0
    /\ current_page' = 0
    /\ pc' = "browsing"
    /\ terminal' = "acquired"
    /\ ui_entries' = ui_entries + 1
    /\ UNCHANGED <<raised, thrown, cli_entries>>

Return(how, value) ==
    /\ pc' = "done"
    /\ outcome' = how
    /\ result' = value

\* an exception leaves select_channels_interactive: nothing is returned
Raise(exception) ==
    /\ pc' = "done"
    /\ outcome' = "Raised"
    /\ thrown' = exception
    /\ raised' = exception
    /\ UNCHANGED result

\* a faulty wrapper: the screen is kept when _checkbox_ui is left
WrapperExitKeepsScreen == UNCHANGED terminal

\* curses.wrapper, finally: keypad(0), echo(), nocbreak(), endwin()
WrapperExit == terminal' = "released"

\* _finalize_selection
FinalizeSelection(selected_channels) ==
    IF selected_channels = <<>> THEN <<>> ELSE selected_channels

SelectChannelsTui ==
    IF TotalEstimated(channels) > WARNING_THRESHOLD
       /\ DictGet(config, "show_message_count_warning", TRUE)
    THEN /\ pc' = "warning"
         /\ UNCHANGED <<session, outcome, result, env>>
    ELSE /\ StartCheckboxUi
         /\ UNCHANGED <<outcome, result>>

\* a faulty start: the selection prompt follows without the warning
SelectChannelsCliStartNoWarning ==
    /\ pc' = "cli_select"
    /\ cli_entries' = cli_entries + 1

\* _select_channels_cli up to its first input()
SelectChannelsCliStart ==
    /\ pc' = IF TotalEstimated(channels) > WARNING_THRESHOLD
             THEN "cli_confirm" ELSE "cli_select"
    /\ cli_entries' = cli_entries + 1

SelectChannelsInteractive(use_tui) ==
    /\ pc = "start"
    /\ IF channels = <<>>
       THEN Return("NoChannels", <<>>) /\ UNCHANGED <<session, env>>
       ELSE IF use_tui THEN SelectChannelsTui
       ELSE /\ SelectChannelsCliStart
            /\ UNCHANGED <<session, outcome, result, terminal, raised,
                           thrown, ui_entries>>
    /\ UNCHANGED <<channels, config, key, response, typed,
                   message, hist>>
    /\ UNCHANGED <<confirm, form>>

\* a faulty prompt: Enter is taken as y
WarningPromptDefaultYes ==
    /\ pc = "warning"
    /\ \E c \in WarningResponses :
        /\ response' = LowerKey(c)
        /\ LET r == response'
           IN CASE r \in {"y", "\n"} ->
                     /\ StartCheckboxUi
                     /\ UNCHANGED <<config, outcome, result>>
                [] r = "s" ->
                     /\ config' = DictSet(config,
                                          "show_message_count_warning", FALSE)
                     /\ StartCheckboxUi
                     /\ UNCHANGED <<outcome, result>>
                [] r \in {"n", "\r", "ESC"} ->
                     /\ Return("Declined", <<>>)
                     /\ UNCHANGED <<config, session, env>>
                [] OTHER ->
                     UNCHANGED <<config, pc, session, outcome, result, env>>
    /\ UNCHANGED <<channels, key, typed, message, hist>>
    /\ UNCHANGED <<confirm, form>>

\* the y/N/s prompt of _select_channels_tui
WarningPrompt ==
    /\ pc = "warning"
    /\ \E c \in WarningResponses :
        /\ response' = LowerKey(c)
        /\ LET r == response'
           IN CASE r = "y" ->
                     /\ StartCheckboxUi
                     /\ UNCHANGED <<config, outcome,
                                    result>>
                [] r = "s" ->
                     /\ config' = DictSet(config,
                                          "show_message_count_warning", FALSE)
                     /\ StartCheckboxUi
                     /\ UNCHANGED <<outcome, result>>
                [] r \in {"n", "\n", "\r", "ESC"} ->
                     /\ Return("Declined", <<>>)
                     /\ UNCHANGED <<config, session,
                                    env>>
                [] OTHER ->
                     UNCHANGED <<config, pc, session,
                                 outcome, result, env>>
    /\ UNCHANGED <<channels, key, typed, message, hist>>
    /\ UNCHANGED <<confirm, form>>

\* KeyboardInterrupt or EOFError at the prompt
WarningInterrupt ==
    /\ pc = "warning"
    /\ response' = "INTERRUPT"
    /\ Return("Declined", <<>>)
    /\ UNCHANGED <<channels, config, session, key, typed,
                   message, hist>>
    /\ UNCHANGED env
    /\ UNCHANGED <<confirm, form>>

----------------------------------------------------------------------------
(* The key handlers of _checkbox_ui.  Each action is one iteration of the   *)
(* while loop: getch() returns a key and the matching branch runs.          *)

Browsing(keys) ==
    /\ pc = "browsing"
    /\ key' \in keys

\* a faulty cancel: the checked channels are handed back
CancelKeyKeepsSelection ==
    /\ Browsing(CancelKeys)
    /\ Return("Cancelled",
              [k \in 1..CountChecked(checked) |->
                   channels[CHOOSE p \in 1..Len(channels) :
                       /\ checked[p]
                       /\ Cardinality({q \in 1..p : checked[q]}) = k]])
    /\ WrapperExit
    /\ UNCHANGED <<channels, config, session, response,
                   typed, message, hist, raised, thrown, ui_entries,
                   cli_entries>>
    /\ UNCHANGED <<confirm, form>>

\* q / Q: return None, which _select_channels_tui turns into []
CancelKey ==
    /\ Browsing(CancelKeys)
    /\ Return("Cancelled", <<>>)
    /\ WrapperExit
    /\ UNCHANGED <<channels, config, session, response,
                   typed, message, hist, raised, thrown, ui_entries,
                   cli_entries>>
    /\ UNCHANGED <<confirm, form>>

\* a faulty result list: the checked indices collected last to first
RECURSIVE CheckedIndicesReversed(_, _)
CheckedIndicesReversed(flags, i) ==
    IF i >= Len(flags) THEN <<>>
    ELSE CheckedIndicesReversed(flags, i + 1)
         \o (IF At(flags, i) THEN <<i>> ELSE <<>>)

\* [i for i, c in enumerate(checked) if c]
RECURSIVE CheckedIndices(_, _)
CheckedIndices(flags, i) ==
    IF i >= Len(flags) THEN <<>>
    ELSE (IF At(flags, i) THEN <<i>> ELSE <<>>) \o CheckedIndices(flags, i + 1)

\* [channels[i] for i in selected_indices]
ChannelsAt(chs, selected_indices) ==
    [k \in 1..Len(selected_indices) |-> At(chs, selected_indices[k])]

\* a faulty Enter: the selection is returned without the emptiness test
ConfirmKeyUnguarded ==
    /\ Browsing(ConfirmKeys)
    /\ Return("Confirmed",
              FinalizeSelection(
                  ChannelsAt(channels, CheckedIndices(checked, 0))))
    /\ WrapperExit
    /\ UNCHANGED <<channels, config, session, response,
                   typed, message, hist, raised, thrown, ui_entries,
                   cli_entries>>
    /\ UNCHANGED <<confirm, form>>

\* Enter
ConfirmKey ==
    /\ Browsing(ConfirmKeys)
    /\ IF CountChecked(checked) = 0
       THEN /\ pc' = "notice"
            /\ UNCHANGED <<outcome, result, terminal>>
       ELSE /\ Return("Confirmed",
                      FinalizeSelection(
                          ChannelsAt(channels, CheckedIndices(checked, 0))))
            /\ WrapperExit
    /\ UNCHANGED <<channels, config, session, response,
                   typed, message, hist, raised, thrown, ui_entries,
                   cli_entries>>
    /\ UNCHANGED <<confirm, form>>

\* a faulty notice: the key read after it is dispatched, here as q
DismissNoticeDispatches ==
    /\ pc = "notice"
    /\ key' \in CancelKeys
    /\ Return("Cancelled", <<>>)
    /\ WrapperExit
    /\ UNCHANGED <<channels, config, session, response,
                   typed, message, hist, raised, thrown, ui_entries,
                   cli_entries>>
    /\ UNCHANGED <<confirm, form>>

\* the getch() that follows the "select at least one channel" notice: the
\* key it returns is not assigned, and the loop continues
DismissNotice ==
    /\ pc = "notice"
    /\ pc' = "browsing"
    /\ UNCHANGED <<channels, config, session, key,
                   response, typed, message, outcome, result, hist>>
    /\ UNCHANGED env
    /\ UNCHANGED <<confirm, form>>

\* a faulty global toggle: the flag flips but the items are always checked
ToggleGlobalAlwaysChecks(flag, n) ==
    [all_checked |-> ~flag, checked |-> [i \in 1..n |-> TRUE]]

\* all_checked = not all_checked; checked = [all_checked] * len(channels)
ToggleGlobalResult(flag, n) ==
    [all_checked |-> ~flag, checked |-> [i \in 1..n |-> ~flag]]

\* a faulty global toggle: the flag flips and the items are left alone
ToggleGlobalFlagOnly ==
    /\ all_checked' = ~all_checked
    /\ UNCHANGED checked
    /\ hist' = Record(<<"global">>)

\* toggle_global: key A, or Space on the All entry
ToggleGlobal ==
    LET toggled == ToggleGlobalResult(all_checked, Len(channels))
    IN /\ all_checked' = toggled.all_checked
       /\ checked' = toggled.checked
       /\ hist' = Record(<<"global">>)

\* a faulty category toggle: the new state is given to every item
ToggleCategoryEverywhere(category_name) ==
    LET category_channels == CategoryChannels(channels, category_name)
        category_indices == CategoryIndices(channels, category_name)
        selected_in_category ==
            Cardinality({k \in 1..Len(category_indices) :
                             At(checked, category_indices[k])})
        new_state == selected_in_category < Len(category_channels)
    IN /\ checked' = [i \in 1..Len(checked) |-> new_state]
       /\ all_checked' = AllOf(checked')

\* Space on a category header
ToggleCategory(category_name) ==
    LET category_channels == CategoryChannels(channels, category_name)
        category_indices == CategoryIndices(channels, category_name)
        selected_in_category ==
            Cardinality({k \in 1..Len(category_indices) :
                             At(checked, category_indices[k])})
        new_state == selected_in_category < Len(category_channels)
        touched == {category_indices[k] : k \in 1..Len(category_indices)}
    IN /\ checked' = [i \in 1..Len(checked) |->
                          IF (i - 1) \in touched THEN new_state
                          ELSE checked[i]]
       /\ all_checked' = AllOf(checked')

\* a faulty item toggle: the global flag is not recomputed
ToggleItemStaleFlag(original_idx) ==
    /\ checked' = [checked EXCEPT ![original_idx + 1] = ~checked[original_idx + 1]]
    /\ UNCHANGED all_checked

\* Space on a channel entry
ToggleItem(original_idx) ==
    /\ checked' = [checked EXCEPT ![original_idx + 1] = ~checked[original_idx + 1]]
    /\ all_checked' = AllOf(checked')

\* Space
ToggleKey ==
    /\ Browsing(ToggleKeys)
    /\ IF OnAll THEN ToggleGlobal
       ELSE IF Target = -1 THEN UNCHANGED <<checked, all_checked, hist>>
       ELSE LET item == At(display_items, Target)
            IN IF item.type = "category_header"
               THEN /\ ToggleCategory(item.category_name)
                    /\ hist' = Record(<<"category", item.category_name>>)
               ELSE /\ ToggleItem(item.original_index)
                    /\ hist' = Record(<<"item", item.channel>>)
    /\ UNCHANGED <<channels, config, pc, display_items,
                   channel_map, total_pages, current_page, current_pos,
                   response, typed, message, outcome, result>>
    /\ UNCHANGED env
    /\ UNCHANGED <<confirm, form>>

\* a faulty shortcut: key A toggles the channel entry under the cursor
ToggleAllKeyAtCursor ==
    /\ Browsing(AllKeys)
    /\ IF ~OnAll /\ Target >= 0 /\ At(display_items, Target).type = "channel"
       THEN /\ ToggleItem(At(display_items, Target).original_index)
            /\ hist' = Record(<<"item", At(display_items, Target).channel>>)
       ELSE ToggleGlobal
    /\ UNCHANGED <<channels, config, pc, display_items,
                   channel_map, total_pages, current_page, current_pos,
                   response, typed, message, outcome, result>>
    /\ UNCHANGED env
    /\ UNCHANGED <<confirm, form>>

\* a / A
ToggleAllKey ==
    /\ Browsing(AllKeys)
    /\ ToggleGlobal
    /\ UNCHANGED <<channels, config, pc, display_items,
                   channel_map, total_pages, current_page, current_pos,
                   response, typed, message, outcome, result>>
    /\ UNCHANGED env
    /\ UNCHANGED <<confirm, form>>

selection_state == <<checked, all_checked, hist>>

\* the number of display entries on a page
ItemCount(page) == EndIdx(page, Len(display_items)) - StartIdx(page)

\* a faulty Up: coming back to the first page the All line is not counted
UpKeyShortOnFirstPage ==
    /\ Browsing(UpKeys)
    /\ IF current_pos > 0
       THEN /\ current_pos' = current_pos - 1
            /\ UNCHANGED current_page
       ELSE IF current_page > 0
       THEN /\ current_page' = current_page - 1
            /\ current_pos' = ItemCount(current_page') - 1
       ELSE UNCHANGED <<current_page, current_pos>>
    /\ UNCHANGED <<channels, config, pc, display_items,
                   channel_map, total_pages, selection_state,
                   response, typed,
                   message, outcome, result>>
    /\ UNCHANGED env
    /\ UNCHANGED <<confirm, form>>

\* a faulty Up: from the All entry the cursor wraps to the end of the list
UpKeyWraps ==
    /\ Browsing(UpKeys)
    /\ IF current_pos > 0
       THEN /\ current_pos' = current_pos - 1
            /\ UNCHANGED current_page
       ELSE IF current_page > 0
       THEN /\ current_page' = current_page - 1
            /\ current_pos' = IF current_page' = 0
                              THEN ItemCount(current_page')
                              ELSE ItemCount(current_page') - 1
       ELSE /\ current_page' = total_pages - 1
            /\ current_pos' = IF current_page' = 0
                              THEN ItemCount(current_page')
                              ELSE ItemCount(current_page') - 1
    /\ UNCHANGED <<channels, config, pc, display_items,
                   channel_map, total_pages, selection_state,
                   response, typed,
                   message, outcome, result>>
    /\ UNCHANGED env
    /\ UNCHANGED <<confirm, form>>

\* KEY_UP / k / K
UpKey ==
    /\ Browsing(UpKeys)
    /\ IF current_pos > 0
       THEN /\ current_pos' = current_pos - 1
            /\ UNCHANGED current_page
       ELSE IF current_page > 0
       THEN /\ current_page' = current_page - 1
            /\ current_pos' = IF current_page' = 0
                              THEN ItemCount(current_page')
                              ELSE ItemCount(current_page') - 1
       ELSE UNCHANGED <<current_page, current_pos>>
    /\ UNCHANGED <<channels, config, pc, display_items,
                   channel_map, total_pages, selection_state,
                   response, typed,
                   message, outcome, result>>
    /\ UNCHANGED env
    /\ UNCHANGED <<confirm, form>>

\* a faulty Down: the last position of a page is taken one too far
DownKeyPastEnd ==
    /\ Browsing(DownKeys)
    /\ LET max_pos_on_page == IF current_page = 0
                              THEN ItemCount(current_page) + 1
                              ELSE ItemCount(current_page)
       IN IF current_pos < max_pos_on_page
          THEN /\ current_pos' = current_pos + 1
               /\ UNCHANGED current_page
          ELSE IF current_page < total_pages - 1
          THEN /\ current_page' = current_page + 1
               /\ current_pos' = 0
          ELSE UNCHANGED <<current_page, current_pos>>
    /\ UNCHANGED <<channels, config, pc, display_items,
                   channel_map, total_pages, selection_state,
                   response, typed,
                   message, outcome, result>>
    /\ UNCHANGED env
    /\ UNCHANGED <<confirm, form>>

\* KEY_DOWN / j / J
DownKey ==
    /\ Browsing(DownKeys)
    /\ LET max_pos_on_page == IF current_page = 0
                              THEN ItemCount(current_page) + 1
                              ELSE ItemCount(current_page)
       IN IF current_pos < max_pos_on_page - 1
          THEN /\ current_pos' = current_pos + 1
               /\ UNCHANGED current_page
          ELSE IF current_page < total_pages - 1
          THEN /\ current_page' = current_page + 1
               /\ current_pos' = 0
          ELSE UNCHANGED <<current_page, current_pos>>
    /\ UNCHANGED <<channels, config, pc, display_items,
                   channel_map, total_pages, selection_state,
                   response, typed,
                   message, outcome, result>>
    /\ UNCHANGED env
    /\ UNCHANGED <<confirm, form>>

\* KEY_LEFT / h / H
LeftKey ==
    /\ Browsing(LeftKeys)
    /\ IF current_page > 0
       THEN /\ current_page' = current_page - 1
            /\ current_pos' = 0
       ELSE UNCHANGED <<current_page, current_pos>>
    /\ UNCHANGED <<channels, config, pc, display_items,
                   channel_map, total_pages, selection_state,
                   response, typed,
                   message, outcome, result>>
    /\ UNCHANGED env
    /\ UNCHANGED <<confirm, form>>

\* a faulty Right: the position within the page is kept
RightKeyKeepsPosition ==
    /\ Browsing(RightKeys)
    /\ IF current_page < total_pages - 1
       THEN /\ current_page' = current_page + 1
            /\ UNCHANGED current_pos
       ELSE UNCHANGED <<current_page, current_pos>>
    /\ UNCHANGED <<channels, config, pc, display_items,
                   channel_map, total_pages, selection_state,
                   response, typed,
                   message, outcome, result>>
    /\ UNCHANGED env
    /\ UNCHANGED <<confirm, form>>

\* KEY_RIGHT / l / L
RightKey ==
    /\ Browsing(RightKeys)
    /\ IF current_page < total_pages - 1
       THEN /\ current_page' = current_page + 1
            /\ current_pos' = 0
       ELSE UNCHANGED <<current_page, current_pos>>
    /\ UNCHANGED <<channels, config, pc, display_items,
                   channel_map, total_pages, selection_state,
                   response, typed,
                   message, outcome, result>>
    /\ UNCHANGED env
    /\ UNCHANGED <<confirm, form>>

\* a faulty dispatch: a key no branch matches is taken as key A
OtherKeyToggles ==
    /\ Browsing(OtherKeys)
    /\ ToggleGlobal
    /\ UNCHANGED <<channels, config, pc, display_items, channel_map,
                   total_pages, current_page, current_pos,
                   response, typed, message, outcome, result>>
    /\ UNCHANGED env
    /\ UNCHANGED <<confirm, form>>

\* a key no branch matches: the loop renders again
OtherKey ==
    /\ Browsing(OtherKeys)
    /\ UNCHANGED <<channels, config, pc, session,
                   response, typed, message, outcome, result, hist>>
    /\ UNCHANGED env
    /\ UNCHANGED <<confirm, form>>

----------------------------------------------------------------------------
(* Leaving _checkbox_ui by an exception.  curses.wrapper restores the       *)
(* screen in its finally clause and the frame of _checkbox_ui is unwound:   *)
(* its locals are gone.                                                     *)

Unwind ==
    /\ display_items' = <<>>
    /\ channel_map' = <<>>
    /\ total_pages' = 0
    /\ checked' = <<>>
    /\ all_checked' = FALSE
    /\ current_page' = 0
    /\ current_pos' = 0
    /\ key' = "none"

\* a faulty handler: the renderer is started again instead of the fallback
RetryCheckboxUi ==
    /\ pc \in {"browsing", "notice"}
    /\ ui_entries < 2
    /\ thrown' = "curses.error"
    /\ message' = "tui_error"
    /\ pc' = "browsing"
    /\ ui_entries' = ui_entries + 1
    /\ UNCHANGED <<channels, config, session, key,
                   response, typed, outcome, result, hist, terminal, raised,
                   cli_entries>>
    /\ UNCHANGED <<confirm, form>>

\* curses.error (an Exception) raised by the set-up calls, by a drawing call
\* or by getch(): `except Exception` reports it and calls
\* _select_channels_cli(channels).  A failure of the set-up or of the first
\* render is this step taken before any key was read.
RendererError ==
    /\ pc \in {"browsing", "notice"}
    /\ WrapperExit
    /\ Unwind
    /\ thrown' = "curses.error"
    /\ message' = "tui_error"
    /\ SelectChannelsCliStart
    /\ UNCHANGED <<channels, config, response, typed,
                   outcome, result, hist, raised, ui_entries>>
    /\ UNCHANGED <<confirm, form>>

\* KeyboardInterrupt raised in getch(): it is not an Exception, so the
\* handler of _select_channels_tui does not catch it
SessionInterrupt ==
    /\ pc \in {"browsing", "notice"}
    /\ WrapperExit
    /\ Unwind
    /\ Raise("KeyboardInterrupt")
    /\ UNCHANGED <<channels, config, response, typed,
                   message, hist, ui_entries, cli_entries>>
    /\ UNCHANGED <<confirm, form>>

Next ==
    \/ SelectChannelsInteractive(TRUE)
    \/ WarningPrompt
    \/ WarningInterrupt
    \/ CancelKey
    \/ ConfirmKey
    \/ DismissNotice
    \/ ToggleKey
    \/ ToggleAllKey
    \/ UpKey
    \/ DownKey
    \/ LeftKey
    \/ RightKey
    \/ OtherKey

Spec == Init /\ [][Next]_vars

SpecScenario == InitScenario /\ [][Next]_vars

----------------------------------------------------------------------------
(* Text typed at input(): a line is a sequence of one-character strings *)

Digits == {"0", "1", "2", "3", "4", "5", "6", "7", "8", "9"}

Whitespace == {" "}

DigitValue(c) ==
    CASE c = "0" -> 0 [] c = "1" -> 1 [] c = "2" -> 2 [] c = "3" -> 3
      [] c = "4" -> 4 [] c = "5" -> 5 [] c = "6" -> 6 [] c = "7" -> 7
      [] c = "8" -> 8 [] c = "9" -> 9

\* str.lower() on the letters the model types
LowerChar(c) ==
    CASE c = "A" -> "a" [] c = "L" -> "l" [] c = "Y" -> "y" [] OTHER -> c

\* a faulty comparison: the letters are compared as typed
LowerAsTyped(s) == s

\* str.lower()
Lower(s) == [k \in 1..Len(s) |-> LowerChar(s[k])]

\* str.strip()
RECURSIVE LStrip(_)
LStrip(s) ==
    IF s # <<>> /\ Head(s) \in Whitespace THEN LStrip(Tail(s)) ELSE s

RECURSIVE RStrip(_)
RStrip(s) ==
    IF s # <<>> /\ s[Len(s)] \in Whitespace
    THEN RStrip(SubSeq(s, 1, Len(s) - 1)) ELSE s

Strip(s) == RStrip(LStrip(s))

\* str.split(sep): the pieces between the separators, empty ones included
RECURSIVE Split(_, _)
Split(s, sep) ==
    IF \A k \in 1..Len(s) : s[k] # sep THEN <<s>>
    ELSE LET k == CHOOSE j \in 1..Len(s) :
                      s[j] = sep /\ \A i \in 1..(j - 1) : s[i] # sep
         IN <<SubSeq(s, 1, k - 1)>> \o Split(SubSeq(s, k + 1, Len(s)), sep)

\* int(text) succeeds: decimal digits, surrounding whitespace allowed
IsInt(text) ==
    LET t == Strip(text)
    IN t # <<>> /\ \A k \in 1..Len(t) : t[k] \in Digits

RECURSIVE DecimalValue(_)
DecimalValue(t) ==
    IF t = <<>> THEN 0
    ELSE 10 * DecimalValue(SubSeq(t, 1, Len(t) - 1)) + DigitValue(t[Len(t)])

\* int(text)
IntOf(text) == DecimalValue(Strip(text))

\* a faulty range: the last index of a-b is left out
RangeListExclusive(a, b) == [k \in 1..(b - 1 - a) |-> a + k - 1]

\* list(range(a, b))
RangeList(a, b) == [k \in 1..(b - a) |-> a + k - 1]

----------------------------------------------------------------------------
(* Python integers are unbounded.  A numeral is kept as its decimal digits, *)
(* most significant first and without leading zeros (0 is the empty         *)
(* sequence); it is turned into an integer of the model when it has at most *)
(* nine digits.                                                             *)

RECURSIVE DropZeros(_)
DropZeros(d) == IF d # <<>> /\ Head(d) = 0 THEN DropZeros(Tail(d)) ELSE d

\* int(text) as a numeral
Numeral(text) ==
    LET t == Strip(text)
    IN DropZeros([k \in 1..Len(t) |-> DigitValue(t[k])])

Exact(num) == Len(num) <= 9

BigLess(a, b) ==
    \/ Len(a) < Len(b)
    \/ /\ Len(a) = Len(b)
       /\ \E k \in 1..Len(a) :
            a[k] < b[k] /\ \A j \in 1..(k - 1) : a[j] = b[j]

\* the digits of a - b from position k (0 is the last digit) upwards
RECURSIVE SubDigits(_, _, _, _)
SubDigits(a, b, k, borrow) ==
    IF k >= Len(a) THEN <<>>
    ELSE LET d == a[Len(a) - k]
                    - (IF k < Len(b) THEN b[Len(b) - k] ELSE 0) - borrow
         IN SubDigits(a, b, k + 1, IF d < 0 THEN 1 ELSE 0)
                \o <<IF d < 0 THEN d + 10 ELSE d>>

\* a - b for a >= b
BigSub(a, b) == DropZeros(SubDigits(a, b, 0, 0))

\* sys.maxsize, 2^63 - 1: len() of a longer range raises OverflowError
PY_SSIZE_T_MAX == <<9, 2, 2, 3, 3, 7, 2, 0, 3, 6, 8, 5, 4, 7, 7, 5, 8, 0, 7>>

\* PY_SSIZE_T_MAX / 8, 2^60 - 1: a list cannot hold more references, and
\* list.extend raises MemoryError before any allocation
LIST_MAX == <<1, 1, 5, 2, 9, 2, 1, 5, 0, 4, 6, 0, 6, 8, 4, 6, 9, 7, 5>>

\* selected_indices.extend(range(start - 1, end)): the indices added, or the
\* exception of the interpreter.  A range of 10^9 and more elements that a
\* list could hold in principle is not modelled.
ExtendRange(start_text, end_text) ==
    LET start == Numeral(start_text)
        end == Numeral(end_text)
        span == BigSub(end, start)    \* one less than the length
    IN IF BigLess(end, start) THEN [error |-> "none", indices |-> <<>>]
       ELSE CASE ~BigLess(span, PY_SSIZE_T_MAX) ->
                     [error |-> "OverflowError", indices |-> <<>>]
              [] BigLess(span, PY_SSIZE_T_MAX) /\ ~BigLess(span, LIST_MAX) ->
                     [error |-> "MemoryError", indices |-> <<>>]
              [] BigLess(span, LIST_MAX) /\ Exact(start) /\ Exact(end) ->
                     [error |-> "none",
                      indices |-> RangeList(IntOf(start_text) - 1,
                                            IntOf(end_text))]

----------------------------------------------------------------------------
(* list(set(selected_indices)): the order in which the interpreter's set    *)
(* yields small integers.  A set is an open-addressing table of 8 slots    *)
(* that grows to more than four times its size when three fifths full; an   *)
(* integer hashes to itself, -1 to -2; a full slot is followed by up to 9   *)
(* linear probes in tables of 16 and more, then by i = 5i + 1 + perturb.    *)

EmptySlot == -2

PyHash(k) == IF k = -1 THEN -2 ELSE k

\* the low bits of perturb after the given number of 5-bit shifts
Perturb(hash, shifts, size) ==
    IF hash >= 0
    THEN IF shifts >= 6 THEN 0 ELSE hash \div (32 ^ shifts)
    ELSE LET bits == 64 - 5 * shifts
         IN IF bits <= 0 THEN 0
            ELSE IF bits >= 31 THEN size - 1
            ELSE IF 2 ^ bits > size - 1 THEN size - 1
            ELSE 2 ^ bits - 1

\* the slot an entry goes to, or -1 when the key is already in the table
RECURSIVE SetProbe(_, _, _, _, _)
SetProbe(table, size, k, i, shifts) ==
    LET probes == IF i + 9 <= size - 1 THEN 9 ELSE 0
        hits == {j \in i..(i + probes) :
                     table[j] = EmptySlot \/ table[j] = k}
    IN IF hits # {}
       THEN LET j == CHOOSE x \in hits : \A y \in hits : x <= y
            IN IF table[j] = k THEN -1 ELSE j
       ELSE SetProbe(table, size, k,
                     (i * 5 + 1 + Perturb(PyHash(k), shifts + 1, size))
                         % size,
                     shifts + 1)

\* the entries of a table in slot order
TableKeys(table, size) ==
    SelectSeq([k \in 1..size |-> table[k - 1]], LAMBDA e : e # EmptySlot)

RECURSIVE GrownSize(_, _)
GrownSize(size, minused) ==
    IF size <= minused THEN GrownSize(2 * size, minused) ELSE size

RECURSIVE InsertClean(_, _, _, _)
InsertClean(table, size, entries, n) ==
    IF n > Len(entries) THEN table
    ELSE LET k == entries[n]
             j == SetProbe(table, size, k, PyHash(k) % size, 0)
         IN InsertClean([table EXCEPT ![j] = k], size, entries, n + 1)

SetResize(table, size, used) ==
    LET newsize == GrownSize(8, used * 4)
    IN [table |-> InsertClean([i \in 0..(newsize - 1) |-> EmptySlot],
                              newsize, TableKeys(table, size), 1),
        size |-> newsize, fill |-> used]

SetAdd(so, k) ==
    LET j == SetProbe(so.table, so.size, k, PyHash(k) % so.size, 0)
        fill == so.fill + 1
    IN IF j = -1 THEN so
       ELSE IF fill * 5 < (so.size - 1) * 3
       THEN [table |-> [so.table EXCEPT ![j] = k], size |-> so.size,
             fill |-> fill]
       ELSE SetResize([so.table EXCEPT ![j] = k], so.size, fill)

\* set(items): the items are added in list order, each before the next
RECURSIVE SetOf(_, _, _)
SetOf(so, items, k) ==
    IF k > Len(items) THEN so
    ELSE LET added == SetAdd(so, items[k])
         IN IF added.fill >= so.fill THEN SetOf(added, items, k + 1)
            ELSE so

\* list(set(items))
ListOfSet(items) ==
    LET so == SetOf([table |-> [i \in 0..7 |-> EmptySlot], size |-> 8,
                     fill |-> 0], items, 1)
    IN TableKeys(so.table, so.size)

----------------------------------------------------------------------------
(* The selection line of _select_channels_cli *)

\* one comma-separated part: the indices it adds, or a ValueError
ParsePart(text) ==
    LET part == Strip(text)
    IN IF \E k \in 1..Len(part) : part[k] = "-"
       THEN LET pieces == Split(part, "-")
            IN IF Len(pieces) = 2 /\ IsInt(pieces[1]) /\ IsInt(pieces[2])
               THEN ExtendRange(pieces[1], pieces[2])
               ELSE [error |-> "ValueError", indices |-> <<>>]
       ELSE IF IsInt(part)
       THEN [error |-> "none", indices |-> <<IntOf(part) - 1>>]
       ELSE [error |-> "ValueError", indices |-> <<>>]

\* the for loop over the parts: the first exception ends it
RECURSIVE ParseParts(_)
ParseParts(parts) ==
    IF parts = <<>> THEN [error |-> "none", indices |-> <<>>]
    ELSE LET first == ParsePart(Head(parts))
             rest == ParseParts(Tail(parts))
         IN IF first.error # "none" THEN first
            ELSE IF rest.error # "none" THEN rest
            ELSE [error |-> "none", indices |-> first.indices \o rest.indices]

\* a faulty parser: only the first index of the line is kept
ParseSelectionFirstOnly(selection, n) ==
    LET parsed == ParseParts(Split(selection, ","))
    IN IF parsed.error # "none" THEN parsed
       ELSE [error |-> "none",
             indices |-> SelectSeq(IF parsed.indices = <<>> THEN <<>>
                                   ELSE <<Head(parsed.indices)>>,
                                   LAMBDA i : 0 <= i /\ i < n)]

\* the body of the try block for one line, after the `all` test
ParseSelection(selection, n) ==
    LET parsed == ParseParts(Split(selection, ","))
    IN IF parsed.error # "none" THEN parsed
       ELSE [error |-> "none",
             indices |-> SelectSeq(ListOfSet(parsed.indices),
                                   LAMBDA i : 0 <= i /\ i < n)]

----------------------------------------------------------------------------
(* _select_channels_cli *)

\* characters typed freely; no number is typed with three digits or more
Alphabet == {"0", "1", "3", "-", ",", " "}

ShortNumbers(line) ==
    \A k \in 1..(Len(line) - 2) :
        ~(line[k] \in Digits /\ line[k + 1] \in Digits
          /\ line[k + 2] \in Digits)

\* the line that lists the 1-based positions of a set in ascending order
RECURSIVE LineOf(_)
LineOf(S) ==
    IF S = {} THEN <<>>
    ELSE LET p == CHOOSE q \in S : \A r \in S : q <= r
             c == CHOOSE d \in Digits : DigitValue(d) = p
         IN IF S = {p} THEN <<c>> ELSE <<c, ",">> \o LineOf(S \ {p})

\* such a line for every selection among up to MaxItems channels
SelectionLines == {LineOf(S) : S \in (SUBSET (1..MaxItems)) \ {{}}}

ExampleLines ==
    {<<"1", ",", "3", ",", "5", "-", "7">>,
     <<"a", "l", "l">>, <<"A", "L", "L">>, <<"A", "l", "l">>,
     <<"a", "L", "l">>, <<"a", "l", "L">>, <<"a", "L", "L">>,
     <<"A", "L", "l">>, <<"A", "l", "L">>,
     \* 1-9223372036854775808, 1-9223372036854775807, 9223372036854775808-1
     <<"1", "-", "9", "2", "2", "3", "3", "7", "2", "0", "3", "6", "8", "5",
       "4", "7", "7", "5", "8", "0", "8">>,
     <<"1", "-", "9", "2", "2", "3", "3", "7", "2", "0", "3", "6", "8", "5",
       "4", "7", "7", "5", "8", "0", "7">>,
     <<"9", "2", "2", "3", "3", "7", "2", "0", "3", "6", "8", "5", "4", "7",
       "7", "5", "8", "0", "8", "-", "1">>}

ExampleChars ==
    UNION {{e[k] : k \in 1..Len(e)} : e \in ExampleLines \cup SelectionLines}

IsPrefix(a, b) == Len(a) <= Len(b) /\ SubSeq(b, 1, Len(a)) = a

FreeLine(line) ==
    /\ Len(line) <= MaxLineLen
    /\ \A k \in 1..Len(line) : line[k] \in Alphabet
    /\ ShortNumbers(line)

CanType(line) ==
    \/ FreeLine(line)
    \/ \E e \in ExampleLines \cup SelectionLines : IsPrefix(line, e)

\* the lines that are ended with Enter
CanSubmit(line) ==
    FreeLine(line) \/ line \in ExampleLines \cup SelectionLines

\* catalogs of the line-oriented selector: 1, 3 and 10 channels
CliCatalogs ==
    {MakeCatalog([i \in 1..n |-> "General"], 30000) : n \in {1, 3, 10}}

InitCli ==
    /\ channels \in CliCatalogs \cup {<<>>}
    /\ hist = Untracked
    /\ InitCommon

\* the answers given at the large-selection prompt
ConfirmAnswers == {<<"y">>, <<"Y">>, <<" ", "y">>, <<"n">>, <<>>}

\* confirm = input(...).strip().lower(); anything but "y" aborts
CliConfirm ==
    /\ pc = "cli_confirm"
    /\ \E answer \in ConfirmAnswers :
        /\ confirm' = Lower(Strip(answer))
        /\ IF confirm' # <<"y">>
           THEN Return("Declined", <<>>)
           ELSE pc' = "cli_select" /\ UNCHANGED <<outcome, result>>
    /\ UNCHANGED <<channels, config, session, key,
                   response, typed, message, hist>>
    /\ UNCHANGED env
    /\ UNCHANGED form

\* the user types one more character of the selection line
TypeChar ==
    /\ pc = "cli_select"
    /\ \E c \in Alphabet \cup ExampleChars :
        /\ CanType(Append(typed, c))
        /\ typed' = Append(typed, c)
    /\ UNCHANGED <<channels, config, pc, session, key,
                   response, message, outcome, result, hist>>
    /\ UNCHANGED env
    /\ UNCHANGED <<confirm, form>>

\* the user ends the line: one iteration of the while loop
SubmitLine ==
    /\ pc = "cli_select"
    /\ CanSubmit(typed)
    /\ LET selection == Strip(typed)
           parsed == ParseSelection(selection, Len(channels))
       IN IF Lower(selection) = <<"a", "l", "l">>
          THEN /\ Return("Confirmed", channels)
               /\ UNCHANGED <<typed, message, raised, thrown>>
          ELSE IF parsed.error = "ValueError"
          THEN /\ message' = "invalid"
               /\ typed' = <<>>
               /\ thrown' = "ValueError"
               /\ UNCHANGED <<pc, outcome, result, raised>>
          ELSE IF parsed.error # "none"
          THEN /\ Raise(parsed.error)
               /\ UNCHANGED <<typed, message>>
          ELSE IF parsed.indices = <<>>
          THEN /\ message' = "no_valid"
               /\ typed' = <<>>
               /\ UNCHANGED <<pc, outcome, result, raised, thrown>>
          ELSE /\ Return("Confirmed", ChannelsAt(channels, parsed.indices))
               /\ UNCHANGED <<typed, message, raised, thrown>>
    /\ UNCHANGED <<channels, config, session, key,
                   response, hist, terminal, ui_entries, cli_entries>>
    /\ UNCHANGED <<confirm, form>>

\* a faulty prompt: Ctrl-C is taken as an empty line and asked again
CliInterruptIgnored ==
    /\ pc \in {"cli_confirm", "cli_select"}
    /\ typed' = <<>>
    /\ message' = "interrupted"
    /\ UNCHANGED <<channels, config, pc, session, key,
                   response, outcome, result, hist, env>>
    /\ UNCHANGED <<confirm, form>>

\* KeyboardInterrupt or EOFError raised by input(): neither is a ValueError
CliInterrupt ==
    /\ pc \in {"cli_confirm", "cli_select"}
    /\ \E exception \in {"KeyboardInterrupt", "EOFError"} : Raise(exception)
    /\ UNCHANGED <<channels, config, session, key,
                   response, typed, message, hist, terminal, ui_entries,
                   cli_entries>>
    /\ UNCHANGED <<confirm, form>>

NextCli ==
    \/ SelectChannelsInteractive(FALSE)
    \/ CliConfirm
    \/ TypeChar
    \/ SubmitLine
    \/ CliInterrupt

SpecCli == InitCli /\ [][NextCli]_vars

----------------------------------------------------------------------------
(* The selection call as a whole: either mode, renderer failures and        *)
(* interrupts included, on a few catalogs                                   *)

\* 1 channel above the warning threshold, and 3 channels below it
FailureCatalogs ==
    {MakeCatalog(<<"General">>, 60000),
     MakeCatalog(<<"General", None, "General">>, 0)}

InitFailures ==
    /\ channels \in FailureCatalogs \cup {<<>>}
    /\ hist = Untracked
    /\ InitCommon

NextFailures ==
    \/ Next
    \/ NextCli
    \/ RendererError
    \/ SessionInterrupt

SpecFailures == InitFailures /\ [][NextFailures]_vars

----------------------------------------------------------------------------
(* Vocabulary of the properties *)

InSession == pc \in {"browsing", "notice"}

SessionEnded == pc = "done" /\ outcome \in {"Confirmed", "Cancelled"}

\* the catalog position (1-based) of a channel, by its channel_id
PositionOf(channel) ==
    CHOOSE p \in 1..Len(channels) :
        channels[p].channel_id = channel.channel_id

\* the display indices of the channel entries listed under the header at h
EntriesUnder(items, h) ==
    {d \in (h + 1)..(Len(items) - 1) :
        /\ At(items, d).type = "channel"
        /\ \A e \in (h + 1)..d : At(items, e).type = "channel"}

\* the catalog positions of the items listed under the header at h
MembersUnder(items, h) ==
    {PositionOf(At(items, d).channel) : d \in EntriesUnder(items, h)}

Aggregate(flags, members) ==
    IF \A p \in members : flags[p] THEN "all"
    ELSE IF \E p \in members : flags[p] THEN "some"
    ELSE "none"

IsHeader(i) ==
    /\ i >= 0
    /\ i < Len(display_items)
    /\ At(display_items, i).type = "category_header"

\* the step is Space pressed with the cursor on the category header at h
SpaceOnHeader(h) ==
    /\ pc = "browsing"
    /\ key' \in ToggleKeys
    /\ ~OnAll
    /\ Target = h
    /\ IsHeader(h)

\* the step is Enter pressed in Browsing
EnterPressed == pc = "browsing" /\ key' \in ConfirmKeys

cursor == <<current_page, current_pos>>

----------------------------------------------------------------------------
\* C1: in a session the global flag all_checked is true exactly when every
\* item's checked flag is true: all_checked = (sum(checked) = N).
C1_GlobalFlagConsistent ==
    (InSession \/ SessionEnded) =>
        (all_checked <=> (CountChecked(checked) = Len(channels)))

\* C1 witness: the last item was checked one by one with Space, not through
\* the All entry, and the global flag is set.
C1_Witness ==
    /\ pc = "browsing"
    /\ key \in ToggleKeys
    /\ ~OnAll
    /\ Len(channels) >= 2
    /\ all_checked
    /\ CountChecked(checked) = Len(channels)

\* the selection state after toggle_global is applied twice in a row
ToggledTwice ==
    LET once == ToggleGlobalResult(all_checked, Len(channels))
    IN ToggleGlobalResult(once.all_checked, Len(once.checked))

SelectionState == [all_checked |-> all_checked, checked |-> checked]

Uniform == CountChecked(checked) \in {0, Len(channels)}

\* C2 as stated: from every reachable configuration, toggle_global applied
\* twice returns the checked flags and the global flag to what they were.
C2_DoubleToggleRestores ==
    pc = "browsing" => ToggledTwice = SelectionState

\* C2 amended: toggle_global applied twice restores the configuration when
\* it was uniform (all checked or none checked); from a configuration with
\* some but not all items checked it ends with every item unchecked and the
\* global flag false.
C2_DoubleToggleUniform ==
    pc = "browsing" =>
        /\ Uniform => ToggledTwice = SelectionState
        /\ ~Uniform =>
               ToggledTwice = [all_checked |-> FALSE,
                               checked |-> [i \in 1..Len(channels) |-> FALSE]]

\* C2 witness: key A has just checked every item of a catalog of several.
C2_Witness ==
    /\ pc = "browsing"
    /\ key \in AllKeys
    /\ Len(channels) >= 2
    /\ CountChecked(checked) = Len(channels)

\* C3 as stated: Space on any category header leaves the items listed under
\* it all unchecked when they were all checked, and all checked otherwise.
C3_CategoryToggle ==
    [][\A h \in 0..(Len(display_items) - 1) :
          SpaceOnHeader(h) =>
              LET members == MembersUnder(display_items, h)
              IN Aggregate(checked', members) =
                     IF Aggregate(checked, members) = "all" THEN "none"
                     ELSE "all"]_vars

\* C4: Enter with nothing checked shows the notice and returns to Browsing
\* with the same cursor and the same all-unchecked flags; no result is
\* returned and the session never ends as Confirmed with nothing checked.
C4_EmptyConfirmStays ==
    /\ [](outcome = "Confirmed" => CountChecked(checked) > 0)
    /\ [][/\ (EnterPressed /\ CountChecked(checked) = 0) =>
                 /\ pc' = "notice"
                 /\ outcome' = "Pending"
                 /\ UNCHANGED <<cursor, checked, all_checked, result>>
          /\ pc = "notice" =>
                 /\ pc' = "browsing"
                 /\ outcome' = "Pending"
                 /\ CountChecked(checked') = 0
                 /\ UNCHANGED <<cursor, checked, all_checked, result>>]_vars

\* C4 witness: back in Browsing after the notice, away from the All entry.
C4_Witness ==
    /\ pc = "browsing"
    /\ key \in ConfirmKeys
    /\ current_pos > 0
    /\ outcome = "Pending"

\* the positions of the checked items, and the rank of one among them
CheckedPositions == {p \in 1..Len(checked) : checked[p]}

RankOf(p) == Cardinality({q \in CheckedPositions : q <= p})

\* C5: Enter with at least one item checked ends the session as Confirmed,
\* and the result is the checked items, each once, in catalog order.
C5_ConfirmReturnsChecked ==
    /\ [](outcome = "Confirmed" =>
             /\ Len(result) = Cardinality(CheckedPositions)
             /\ \A p \in CheckedPositions : result[RankOf(p)] = channels[p])
    /\ [][(EnterPressed /\ CountChecked(checked) > 0) =>
              (pc' = "done" /\ outcome' = "Confirmed")]_vars

\* C5 witness: a confirmed selection of several items that skips an item
\* lying between two selected ones.
C5_Witness ==
    /\ outcome = "Confirmed"
    /\ \E p, q, r \in 1..Len(channels) :
           p < q /\ q < r /\ checked[p] /\ ~checked[q] /\ checked[r]

\* the catalog without the channel ch
Without(ch) == SelectSeq(channels, LAMBDA c : c.channel_id # ch.channel_id)

\* global toggle, then Space on the entry of a channel of "General"
ScenarioDone ==
    /\ Len(hist) = 2
    /\ hist[1] = <<"global">>
    /\ hist[2][1] = "item"
    /\ hist[2][2].category_name = "General"

\* C6: with 2 "Announcements", 3 "General" and 1 null-category item, global
\* toggle followed by un-checking one "General" item leaves the "General"
\* header drawn as `some`, and confirm returns the 5 other items in order.
C6_EndToEnd ==
    ScenarioDone =>
        /\ RenderHeader(channels, checked, "General").symbol = "some"
        /\ RenderHeader(channels, checked, "General").selected = 2
        /\ outcome = "Confirmed" => result = Without(hist[2][2])

\* C6 witness: the scenario was played and confirmed.
C6_Witness ==
    /\ ScenarioDone
    /\ outcome = "Confirmed"
    /\ Len(result) = 5

\* the original_index values of the channel entries, as a set
OriginalIndices ==
    {At(display_items, d).original_index :
        d \in {i \in 0..(Len(display_items) - 1) :
                   At(display_items, i).type = "channel"}}

ChannelEntryCount ==
    Cardinality({i \in 0..(Len(display_items) - 1) :
                     At(display_items, i).type = "channel"})

\* C7: the display list has one channel entry per catalog position: the
\* original_index values, and the values of channel_map, are a permutation
\* of 0..N-1.
C7_DisplayListPermutation ==
    (InSession \/ SessionEnded) =>
        /\ ChannelEntryCount = Len(channels)
        /\ OriginalIndices = 0..(Len(channels) - 1)
        /\ Cardinality(DOMAIN channel_map) = Len(channels)
        /\ {channel_map[d] : d \in DOMAIN channel_map}
               = 0..(Len(channels) - 1)
        /\ \A d \in DOMAIN channel_map :
               At(channels, channel_map[d]) = At(display_items, d).channel

\* C7 witness: a display list whose grouping moved a later item in front of
\* an earlier one.
C7_Witness ==
    /\ pc = "browsing"
    /\ \E d, e \in DOMAIN channel_map :
           d < e /\ channel_map[d] > channel_map[e]

\* the headers the render loop draws on the current page
HeadersOnPage ==
    {h \in StartIdx(current_page)
               ..(EndIdx(current_page, Len(display_items)) - 1) : IsHeader(h)}

\* C8 as stated: a rendered header shows the aggregate and the counts of the
\* current flags of exactly the items the display list puts under it.
C8_HeaderShowsMembers ==
    pc = "browsing" =>
        \A h \in HeadersOnPage :
            LET drawn == RenderHeader(channels, checked,
                                      At(display_items, h).category_name)
                members == MembersUnder(display_items, h)
            IN /\ drawn.symbol = Aggregate(checked, members)
               /\ drawn.total = Cardinality(members)
               /\ drawn.selected =
                      Cardinality({p \in members : checked[p]})

\* the 0-based catalog positions of the channels of a result list
ResultIndices(res) == {PositionOf(res[k]) - 1 : k \in 1..Len(res)}

\* C9 as stated: the line-oriented selector returns the selected channels in
\* catalog order, whatever the order of the tokens of the line.
C9_ResultInCatalogOrder ==
    (pc = "done" /\ outcome = "Confirmed") =>
        \A j, k \in 1..Len(result) :
            j < k => PositionOf(result[j]) < PositionOf(result[k])

\* a number as the selection syntax writes it
IsNumber(text) ==
    /\ Strip(text) # <<>>
    /\ \A k \in 1..Len(Strip(text)) : Strip(text)[k] \in Digits

\* the places of a token where a range a-b has its hyphen
RangeSplits(token) ==
    {k \in 1..Len(token) :
        /\ token[k] = "-"
        /\ IsNumber(SubSeq(token, 1, k - 1))
        /\ IsNumber(SubSeq(token, k + 1, Len(token)))}

ValidToken(token) == IsNumber(token) \/ RangeSplits(token) # {}

\* the numeral of a natural number of the model
RECURSIVE IntNumeral(_)
IntNumeral(i) ==
    IF i = 0 THEN <<>> ELSE Append(IntNumeral(i \div 10), i % 10)

\* a valid token stands for the 0-based index i: it is the integer i+1, or
\* a range a-b with a <= i+1 <= b
TokenHas(token, i) ==
    IF IsNumber(token) THEN Numeral(token) = IntNumeral(i + 1)
    ELSE \E k \in RangeSplits(token) :
            /\ ~BigLess(IntNumeral(i + 1), Numeral(SubSeq(token, 1, k - 1)))
            /\ ~BigLess(Numeral(SubSeq(token, k + 1, Len(token))),
                        IntNumeral(i + 1))

TokensOf(line) ==
    LET parts == Split(Strip(line), ",")
    IN {parts[k] : k \in 1..Len(parts)}

AllTokensValid(line) == \A token \in TokensOf(line) : ValidToken(token)

\* the indices a line of valid tokens selects among n channels
LineIndices(line, n) ==
    {i \in 0..(n - 1) : \E token \in TokensOf(line) : TokenHas(token, i)}

\* the step ends a line typed at the selection prompt with Enter
LineSubmitted ==
    /\ pc = "cli_select"
    /\ Len(typed') # Len(typed) + 1
    /\ raised' \notin {"KeyboardInterrupt", "EOFError"}

ExampleLine == <<"1", ",", "3", ",", "5", "-", "7">>

\* C10 as stated: a line whose tokens are all valid resolves to the set of indices
\* k-1 of its integers k and a-1..b-1 of its ranges a-b, within 0..N-1 and
\* without repetition; "1,3,5-7" on 10 channels resolves to {0,2,4,5,6}.
C10_ParserResolvesIndices ==
    /\ []((pc = "done" /\ outcome = "Confirmed" /\ typed = ExampleLine
           /\ Len(channels) = 10) =>
              ResultIndices(result) = {0, 2, 4, 5, 6})
    /\ [][(LineSubmitted /\ AllTokensValid(typed)) =>
              LET indices == LineIndices(typed, Len(channels))
              IN IF indices = {}
                 THEN pc' = "cli_select" /\ outcome' = "Pending"
                 ELSE /\ pc' = "done"
                      /\ outcome' = "Confirmed"
                      /\ ResultIndices(result') = indices
                      /\ Len(result') = Cardinality(indices)]_vars

\* the line is the token `all` in some letter case
IsAll(line) ==
    LET t == Strip(line)
    IN Len(t) = 3 /\ t[1] \in {"a", "A"} /\ t[2] \in {"l", "L"}
       /\ t[3] \in {"l", "L"}

\* C11 as stated: a line that is not `all` and has a token that is neither
\* an integer nor a range, or whose in-bounds index set is empty, produces
\* no selection and the selector prompts again; no submitted line ends the
\* selector with an error handed to the caller.
C11_ParseFailureRecovered ==
    [][(LineSubmitted /\ ~IsAll(typed)) =>
          /\ raised' = "none"
          /\ (~AllTokensValid(typed)
                  \/ LineIndices(typed, Len(channels)) = {}) =>
                 /\ pc' = "cli_select"
                 /\ outcome' = "Pending"
                 /\ result' = <<>>
                 /\ message' \in {"invalid", "no_valid"}]_vars

\* C12: in the line-oriented selector the line `all`, in any letter case,
\* selects every index 0..N-1: the call returns the whole catalog.
C12_AllSelectsEverything ==
    [][(LineSubmitted /\ IsAll(typed)) =>
          /\ pc' = "done"
          /\ outcome' = "Confirmed"
          /\ raised' = "none"
          /\ result' = channels
          /\ ResultIndices(result') = 0..(Len(channels) - 1)]_vars

\* C12 witness: `aLl` was accepted on a catalog of 3 channels.
C12_Witness ==
    /\ pc = "done"
    /\ outcome = "Confirmed"
    /\ typed = <<"a", "L", "l">>
    /\ Len(channels) = 3
    /\ Len(result) = 3

\* the step is an error raised by the renderer during a session
RendererFailed == InSession /\ thrown' = "curses.error"

\* C13: when the renderer raises an error, at its set-up or in any
\* render/input cycle, _select_channels_tui reports it and calls the
\* line-oriented selector on the same catalog, once; the checkbox UI is not
\* entered again and the error does not reach the caller.
C13_RendererErrorFallsBack ==
    /\ [][RendererFailed =>
              /\ message' = "tui_error"
              /\ pc' \in {"cli_confirm", "cli_select"}
              /\ channels' = channels
              /\ cli_entries' = 1
              /\ ui_entries' = 1
              /\ raised' = "none"
              /\ outcome' = "Pending"]_vars
    /\ [][cli_entries >= 1 =>
              /\ ~InSession'
              /\ cli_entries' = cli_entries
              /\ ui_entries' = ui_entries]_vars
    /\ [](raised # "curses.error")

\* C13 witness: the renderer failed and a selection was then confirmed at
\* the prompt of the line-oriented selector.
C13_Witness ==
    /\ ui_entries = 1
    /\ cli_entries = 1
    /\ pc = "done"
    /\ outcome = "Confirmed"
    /\ Len(result) = 2

\* C14: on every way out of the interactive session (confirm, cancel, an
\* error of the renderer, an interrupt) the screen taken at the start of
\* the session is released before the caller or the line-oriented
\* selector runs: the screen is held only while the session is in progress.
C14_TerminalReleased ==
    /\ InSession => terminal = "acquired"
    /\ pc \in {"done", "cli_confirm", "cli_select"} => terminal = "released"

\* C14 witness: a session was left by an interrupt and the screen is
\* released.
C14_Witness ==
    /\ pc = "done"
    /\ ui_entries = 1
    /\ raised = "KeyboardInterrupt"
    /\ cli_entries = 0
    /\ terminal = "released"

\* the step is an interrupt raised while the session waits for a key
InterruptedInSession == InSession /\ thrown' = "KeyboardInterrupt"

\* C15 as stated: an interrupt raised while the session waits for input
\* ends the selection call as the cancel key does: outcome Cancelled, the
\* empty list returned to the caller.
C15_InterruptIsCancel ==
    [][InterruptedInSession =>
          /\ pc' = "done"
          /\ outcome' = "Cancelled"
          /\ result' = <<>>
          /\ raised' = "none"]_vars

\* the step is the cancel key pressed in Browsing
CancelPressed == pc = "browsing" /\ key' \in CancelKeys

\* C16: the cancel key pressed in Browsing ends the session in that step
\* as Cancelled, and the caller gets the empty list whatever was checked.
C16_CancelDiscardsSelection ==
    /\ [][CancelPressed =>
              /\ pc' = "done"
              /\ outcome' = "Cancelled"
              /\ result' = <<>>
              /\ raised' = "none"]_vars
    /\ [](outcome = "Cancelled" => result = <<>>)

\* C16 witness: the session was cancelled with two channels checked.
C16_Witness ==
    /\ pc = "done"
    /\ outcome = "Cancelled"
    /\ key \in CancelKeys
    /\ CountChecked(checked) = 2
    /\ result = <<>>

\* C17: the selection call returns the empty list only for an empty
\* catalog, a declined warning or a cancelled session; a confirmed
\* selection, by Enter in the checkbox UI or by an accepted line or `all`
\* at the prompt, has at least one channel.
C17_ConfirmedNeverEmpty ==
    (pc = "done" /\ raised = "none") =>
        /\ outcome \in {"NoChannels", "Declined", "Cancelled", "Confirmed"}
        /\ outcome = "Confirmed" => Len(result) >= 1
        /\ result = <<>> => outcome \in {"NoChannels", "Declined", "Cancelled"}
        /\ outcome = "NoChannels" <=> channels = <<>>

\* C17 witness: one of three channels was confirmed at the prompt of the
\* line-oriented selector, called directly.
C17_Witness ==
    /\ pc = "done"
    /\ outcome = "Confirmed"
    /\ ui_entries = 0
    /\ cli_entries = 1
    /\ Len(channels) = 3
    /\ Len(result) = 1

\* the display index of the channel entry of the item at catalog position p
EntryOf(p) ==
    CHOOSE d \in 0..(Len(display_items) - 1) :
        /\ At(display_items, d).type = "channel"
        /\ At(display_items, d).channel.channel_id = channels[p].channel_id

\* how many entries the cursor is away from the entry of the item at p
Gap(p) ==
    IF Target >= EntryOf(p) THEN Target - EntryOf(p)
    ELSE EntryOf(p) - Target

\* the catalog positions (1-based) of a result list
ResultPositions(res) == {PositionOf(res[k]) : k \in 1..Len(res)}

CheckedSet == {p \in 1..Len(checked) : checked[p]}

\* in the checkbox UI every non-empty set of items can be confirmed: from
\* any state of a session the cursor can be moved one entry closer to the
\* entry of any item without touching a flag, Space on that entry flips
\* that item alone, and Enter returns the checked items
UiReachesEverySelection ==
    /\ (pc = "start" /\ channels # <<>>) =>
          ENABLED (SelectChannelsInteractive(TRUE)
                      /\ pc' \in {"warning", "browsing"})
    /\ pc = "warning" => ENABLED (WarningPrompt /\ pc' = "browsing")
    /\ pc = "notice" =>
          ENABLED (DismissNotice /\ pc' = "browsing" /\ checked' = checked)
    /\ pc = "browsing" =>
          /\ \A p \in 1..Len(channels) :
                IF Target = EntryOf(p)
                THEN ENABLED (/\ ToggleKey
                              /\ pc' = "browsing"
                              /\ cursor' = cursor
                              /\ checked' = [checked EXCEPT
                                                 ![p] = ~checked[p]])
                ELSE ENABLED (/\ UpKey \/ DownKey
                              /\ pc' = "browsing"
                              /\ checked' = checked
                              /\ Gap(p)' < Gap(p))
          /\ CheckedSet # {} =>
                ENABLED (/\ ConfirmKey
                         /\ outcome' = "Confirmed"
                         /\ ResultPositions(result') = CheckedSet)

\* at the prompt every non-empty set of items can be confirmed: the line
\* that lists its positions can be typed character by character and
\* ended with Enter
CliTypesEverySelection ==
    /\ (pc = "start" /\ channels # <<>>) =>
          ENABLED (SelectChannelsInteractive(FALSE)
                      /\ pc' \in {"cli_confirm", "cli_select"})
    /\ pc = "cli_confirm" => ENABLED (CliConfirm /\ pc' = "cli_select")
    /\ pc = "cli_select" =>
          /\ \A S \in (SUBSET (1..Len(channels))) \ {{}} :
                IF typed = LineOf(S) THEN CanSubmit(typed)
                ELSE IsPrefix(typed, LineOf(S)) =>
                        ENABLED (/\ TypeChar
                                 /\ Len(typed') = Len(typed) + 1
                                 /\ IsPrefix(typed', LineOf(S)))

\* and that line, ended with Enter, is accepted with that set as the result
CliAcceptsEverySelection ==
    \A S \in (SUBSET (1..Len(channels))) \ {{}} :
        (LineSubmitted /\ typed = LineOf(S)) =>
            /\ pc' = "done"
            /\ outcome' = "Confirmed"
            /\ ResultPositions(result') = S

\* C18: on the same catalog the sets of items that can be confirmed in the
\* checkbox UI and at the prompt of the line-oriented selector are the
\* same: in both, every non-empty set of items of the catalog can be
\* confirmed, and nothing else is ever confirmed.
C18_SameReachableSelections ==
    /\ [](UiReachesEverySelection /\ CliTypesEverySelection)
    /\ [][CliAcceptsEverySelection]_vars
    /\ []((pc = "done" /\ outcome = "Confirmed") =>
             /\ ResultPositions(result) \in
                    (SUBSET (1..Len(channels))) \ {{}}
             /\ Cardinality(ResultPositions(result)) = Len(result))

\* C18 witness: the first and the third of three channels were confirmed
\* in the checkbox UI.
C18_Witness ==
    /\ pc = "done"
    /\ outcome = "Confirmed"
    /\ cli_entries = 0
    /\ ui_entries = 1
    /\ Len(channels) = 3
    /\ ResultPositions(result) = {1, 3}

\* the step is toggle_global: key A, or Space on the All entry
GlobalToggled ==
    /\ pc = "browsing"
    /\ key' \in AllKeys \/ (key' \in ToggleKeys /\ OnAll)

\* C19: toggle_global sets the flag of every item to the negation of the
\* global flag as it was before, and the global flag to that same value;
\* when the global flag was false every item is checked afterwards.
C19_ToggleGlobal ==
    [][GlobalToggled =>
          /\ Len(checked') = Len(channels)
          /\ \A p \in 1..Len(channels) : checked'[p] = ~all_checked
          /\ all_checked' = ~all_checked
          /\ ~all_checked => CountChecked(checked') = Len(channels)
          /\ pc' = "browsing"
          /\ cursor' = cursor]_vars

\* C19 witness: Space on the All entry has just checked all three channels.
C19_Witness ==
    /\ pc = "browsing"
    /\ key \in ToggleKeys
    /\ OnAll
    /\ Len(channels) = 3
    /\ all_checked
    /\ CountChecked(checked) = 3

\* the cursor is on a channel entry
OnChannelEntry ==
    /\ ~OnAll
    /\ Target >= 0
    /\ At(display_items, Target).type = "channel"

\* the step is Space pressed with the cursor on a channel entry
SpaceOnChannel == pc = "browsing" /\ key' \in ToggleKeys /\ OnChannelEntry

\* C20: Space on the channel entry of an item flips the checked flag of
\* that item and of no other, and the global flag is then true exactly
\* when every flag is.
C20_ToggleItem ==
    [][SpaceOnChannel =>
          LET p == PositionOf(At(display_items, Target).channel)
          IN /\ checked' = [checked EXCEPT ![p] = ~checked[p]]
             /\ all_checked' = (\A q \in 1..Len(channels) : checked'[q])
             /\ pc' = "browsing"
             /\ cursor' = cursor]_vars

\* C20 witness: Space on a channel entry has just checked the second of
\* three channels, alone.
C20_Witness ==
    /\ pc = "browsing"
    /\ key \in ToggleKeys
    /\ OnChannelEntry
    /\ Len(channels) = 3
    /\ PositionOf(At(display_items, Target).channel) = 2
    /\ checked = <<FALSE, TRUE, FALSE>>
    /\ ~all_checked

----------------------------------------------------------------------------
(* Paging: catalogs of every length up to MaxChannels, moved through with    *)
(* the navigation keys                                                       *)

MaxChannels == 42

\* n channels of one category: a header and n channel entries
PagingCatalogs ==
    {MakeCatalog([i \in 1..n |-> "General"], 0) : n \in 0..MaxChannels}

InitPaging ==
    /\ channels \in PagingCatalogs
    /\ hist = Untracked
    /\ InitCommon

NextPaging ==
    \/ SelectChannelsInteractive(TRUE)
    \/ UpKey
    \/ DownKey
    \/ LeftKey
    \/ RightKey
    \/ CancelKey

SpecPaging == InitPaging /\ [][NextPaging]_vars

----------------------------------------------------------------------------
(* The entry the render highlights *)

\* the All line is drawn highlighted
AllHighlighted(page, pos) == page = 0 /\ pos = 0

\* the display indices the render loop draws with is_selected true
HighlightedEntries(page, pos, n) ==
    {i \in StartIdx(page)..(EndIdx(page, n) - 1) :
        /\ i < n
        /\ LET display_pos == i - StartIdx(page)
           IN IF page = 0 THEN (pos - 1) = display_pos
              ELSE pos = display_pos}

\* the step is Space pressed in Browsing
SpacePressed == pc = "browsing" /\ key' \in ToggleKeys

\* C21: Space acts on the one entry the render highlights: toggle_global on
\* the All entry, toggle_category with the header's label on a category
\* header, toggle_item with the entry's original index on a channel entry;
\* exactly one entry is highlighted, so exactly one operation is performed,
\* and the cursor stays.
C21_SpaceActsOnHighlighted ==
    [][SpacePressed =>
          LET shown == HighlightedEntries(current_page, current_pos,
                                          Len(display_items))
              onAll == AllHighlighted(current_page, current_pos)
          IN /\ Cardinality(shown) + (IF onAll THEN 1 ELSE 0) = 1
             /\ onAll =>
                    /\ checked' = [i \in 1..Len(channels) |-> ~all_checked]
                    /\ all_checked' = ~all_checked
             /\ \A h \in shown :
                    LET item == At(display_items, h)
                    IN IF item.type = "category_header"
                       THEN ToggleCategory(item.category_name)
                       ELSE ToggleItem(item.original_index)
             /\ cursor' = cursor]_vars

\* Space has been pressed on an entry of the second page of the
\* eight-channel catalog and something is checked
C21_Witness ==
    /\ pc = "browsing"
    /\ key \in ToggleKeys
    /\ current_page = 1
    /\ HighlightedEntries(current_page, current_pos, Len(display_items)) # {}
    /\ Len(channels) = 8
    /\ CountChecked(checked) > 0

\* the step is key A pressed in Browsing
AllKeyPressed == pc = "browsing" /\ key' \in AllKeys

\* the step is Space pressed with the All entry highlighted
SpaceOnAllEntry ==
    SpacePressed /\ AllHighlighted(current_page, current_pos)

\* what Space on the All entry makes of a selection state
AfterSpaceOnAll(flags, flag) ==
    <<[i \in 1..Len(flags) |-> ~flag], ~flag>>

\* C22: key A, wherever the cursor is, changes the checked flags and the
\* global flag exactly as Space on the All entry does from the same
\* selection state, and leaves the cursor where it was.
C22_AllKeyIsSpaceOnAll ==
    [][/\ SpaceOnAllEntry =>
              <<checked', all_checked'>> = AfterSpaceOnAll(checked, all_checked)
       /\ AllKeyPressed =>
              /\ <<checked', all_checked'>> =
                     AfterSpaceOnAll(checked, all_checked)
              /\ cursor' = cursor]_vars

\* key A has checked everything with the cursor inside the second page
C22_Witness ==
    /\ pc = "browsing"
    /\ key \in AllKeys
    /\ current_page = 1
    /\ all_checked
    /\ CountChecked(checked) = 8

\* C23: in every state of a session the cursor designates an existing
\* target: the page is one of the total_pages pages, and the position is
\* the All entry of page 0 or a display entry inside the slice of the page;
\* a page other than the first is never empty under the cursor.
C23_CursorOnTarget ==
    InSession =>
        /\ 0 <= current_page
        /\ current_page < total_pages
        /\ total_pages = TotalPages(Len(display_items))
        /\ current_pos >= 0
        /\ \/ AllHighlighted(current_page, current_pos)
           \/ \E i \in HighlightedEntries(current_page, current_pos,
                                          Len(display_items)) :
                  /\ StartIdx(current_page) <= i
                  /\ i < EndIdx(current_page, Len(display_items))
                  /\ i < Len(display_items)
        /\ current_page > 0 => ItemCount(current_page) > 0

\* Down has brought the cursor to the last entry of the last page
C23_Witness ==
    /\ pc = "browsing"
    /\ key \in DownKeys
    /\ current_page = total_pages - 1
    /\ current_page > 0
    /\ current_pos = ItemCount(current_page) - 1

\* the step is Up, or Down, pressed in Browsing
UpPressed == pc = "browsing" /\ key' \in UpKeys

DownPressed == pc = "browsing" /\ key' \in DownKeys

\* the place of the cursor in the whole list: 0 for the All entry, then the
\* display entries in order
RankAt(page, pos) ==
    IF AllHighlighted(page, pos) THEN 0
    ELSE 1 + SelectedIndex(page, pos, Len(display_items))

OnLastEntry ==
    /\ current_page = total_pages - 1
    /\ RankAt(current_page, current_pos) = Len(display_items)

\* C24: Up on the All entry and Down on the last display entry of the last
\* page leave the cursor unchanged, and no Up or Down takes the cursor from
\* one end of the whole list to the other.
C24_NoWrap ==
    [][/\ (UpPressed /\ OnAll) => cursor' = cursor
       /\ (DownPressed /\ OnLastEntry) => cursor' = cursor
       /\ (UpPressed \/ DownPressed) =>
              /\ ~(/\ RankAt(current_page, current_pos) = 0
                   /\ RankAt(current_page', current_pos') = Len(display_items))
              /\ ~(/\ RankAt(current_page, current_pos) = Len(display_items)
                   /\ RankAt(current_page', current_pos') = 0)]_vars

\* Up has been pressed and the cursor is on the All entry of a list of four
\* pages
C24_Witness ==
    /\ pc = "browsing"
    /\ key \in UpKeys
    /\ OnAll
    /\ total_pages = 4

\* the display index of the first and of the last entry of a page
FirstOf(page) == StartIdx(page)

LastOf(page) == EndIdx(page, Len(display_items)) - 1

\* the cursor is on the last position of its page
OnPageEnd == RankAt(current_page, current_pos) = 1 + LastOf(current_page)

\* C25: Down on the last entry of a page that is not the last goes to the
\* first entry of the next page; Up on the first entry of a page that is
\* not the first goes to the last entry of the previous page, which on
\* page 0 is its last display entry and not the All entry; anywhere else
\* inside a page Up and Down move the position by exactly one and keep the
\* page.
C25_PageCrossing ==
    [][/\ (DownPressed /\ OnPageEnd /\ current_page < total_pages - 1) =>
              /\ current_page' = current_page + 1
              /\ current_pos' = 0
              /\ RankAt(current_page', current_pos') = 1 + FirstOf(current_page')
       /\ (UpPressed /\ current_page > 0 /\ current_pos = 0) =>
              /\ current_page' = current_page - 1
              /\ RankAt(current_page', current_pos') = 1 + LastOf(current_page')
              /\ ~AllHighlighted(current_page', current_pos')
       /\ (DownPressed /\ ~OnPageEnd) =>
              /\ current_page' = current_page
              /\ current_pos' = current_pos + 1
       /\ (UpPressed /\ current_pos > 0) =>
              /\ current_page' = current_page
              /\ current_pos' = current_pos - 1]_vars

\* Up has come back from the second page to the twelfth display entry of
\* the first
C25_Witness ==
    /\ pc = "browsing"
    /\ key \in UpKeys
    /\ current_page = 0
    /\ current_pos = FIRST_PAGE_ITEMS
    /\ total_pages > 1

\* the step is Left, or Right, pressed in Browsing
LeftPressed == pc = "browsing" /\ key' \in LeftKeys

RightPressed == pc = "browsing" /\ key' \in RightKeys

\* C26: Left goes to the previous page and Right to the next, both with
\* position 0; Left on the first page and Right on the last page change
\* neither the page nor the position.
C26_PageKeys ==
    [][/\ LeftPressed =>
              IF current_page > 0
              THEN cursor' = <<current_page - 1, 0>>
              ELSE cursor' = cursor
       /\ RightPressed =>
              IF current_page < total_pages - 1
              THEN cursor' = <<current_page + 1, 0>>
              ELSE cursor' = cursor]_vars

\* Right has been pressed and the cursor is at the top of the third page of
\* four
C26_Witness ==
    /\ pc = "browsing"
    /\ key \in RightKeys
    /\ cursor = <<2, 0>>
    /\ total_pages = 4

\* the entries the render loop draws on a page
PageSlice(items, page) ==
    SubSeq(items, StartIdx(page) + 1, EndIdx(page, Len(items)))

\* the slices of pages 0 .. last, one after the other
RECURSIVE PagesUpTo(_, _)
PagesUpTo(items, last) ==
    IF last < 0 THEN <<>>
    ELSE PagesUpTo(items, last - 1) \o PageSlice(items, last)

\* the display indices drawn on a page of a list of n entries
PageIndices(page, n) == StartIdx(page)..(EndIdx(page, n) - 1)

\* the pages of a list of n entries cover 0 .. n-1 without gap or overlap
\* and hold no more than their capacity, and none is empty when n > 0
PagesPartition(n) ==
    LET pages == 0..(TotalPages(n) - 1)
    IN /\ UNION {PageIndices(p, n) : p \in pages} = 0..(n - 1)
       /\ \A p, q \in pages :
              p # q => PageIndices(p, n) \cap PageIndices(q, n) = {}
       /\ \A p, q \in pages :
              p < q => \A i \in PageIndices(p, n) :
                           \A j \in PageIndices(q, n) : i < j
       /\ \A p \in pages :
              Cardinality(PageIndices(p, n)) <=
                  IF p = 0 THEN FIRST_PAGE_ITEMS ELSE ITEMS_PER_PAGE
       /\ n > 0 => \A p \in pages : PageIndices(p, n) # {}

\* C27: for every display-list length the slices of pages 0 ..
\* total_pages-1, page 0 of up to 12 entries and every later page of up to
\* 15, put together in page order are the display list, each entry once,
\* and every page has a non-empty slice when the list is not empty.
C27_PagesReproduceList ==
    /\ \A n \in 0..(MaxChannels + 1) : PagesPartition(n)
    /\ InSession =>
           /\ PagesUpTo(display_items, total_pages - 1) = display_items
           /\ PagesPartition(Len(display_items))

\* the fourth page of a list of 43 entries is on the screen with its one
\* entry
C27_Witness ==
    /\ pc = "browsing"
    /\ Len(display_items) = 43
    /\ total_pages = 4
    /\ current_page = 3
    /\ Len(PageSlice(display_items, current_page)) = 1

\* the least k with k * b >= a, for a >= 0 and b > 0
CeilDiv(a, b) == CHOOSE k \in 0..a : k * b >= a /\ (k = 0 \/ (k - 1) * b < a)

Max(a, b) == IF a >= b THEN a ELSE b

\* 1 + ceil(max(0, n - FIRST_PAGE_ITEMS) / ITEMS_PER_PAGE)
PageCountFormula(n) ==
    1 + CeilDiv(Max(0, n - FIRST_PAGE_ITEMS), ITEMS_PER_PAGE)

\* C28: the page count computed when the session starts is
\* 1 + ceil(max(0, N - 12) / 15) for every number N >= 0 of display
\* entries.
C28_PageCount ==
    /\ FIRST_PAGE_ITEMS = 12
    /\ ITEMS_PER_PAGE = 15
    /\ \A n \in 0..(MaxChannels + 1) : TotalPages(n) = PageCountFormula(n)
    /\ InSession => total_pages = PageCountFormula(Len(display_items))

\* a session over 28 display entries has started with three pages
C28_Witness ==
    /\ pc = "browsing"
    /\ Len(display_items) = FIRST_PAGE_ITEMS + ITEMS_PER_PAGE + 1
    /\ total_pages = 3

----------------------------------------------------------------------------
(* The display list builder on catalogs of every mix of labels *)

MaxBuilt == 4

\* the labels a channel can carry: three category names, one of them
\* sorting after the Uncategorized literal, that literal itself as the name
\* of a real category, and null
BuilderLabels == {"Announcements", "General", ZATSUDAN, UNCATEGORIZED, None}

BuilderCatalogs ==
    {MakeCatalog(cats, 0) : cats \in SeqsUpTo(BuilderLabels, MaxBuilt)}

InitBuilder ==
    /\ channels \in BuilderCatalogs
    /\ hist = Untracked
    /\ InitCommon

NextBuilder ==
    \/ SelectChannelsInteractive(TRUE)
    \/ UpKey
    \/ DownKey
    \/ CancelKey

SpecBuilder == InitBuilder /\ [][NextBuilder]_vars

\* the display indices of the category headers, and their labels in order
HeaderIndices(items) ==
    {d \in 0..(Len(items) - 1) : At(items, d).type = "category_header"}

HeaderLabels(items) ==
    LET headers == SelectSeq(items, LAMBDA x : x.type = "category_header")
    IN [k \in 1..Len(headers) |-> headers[k].category_name]

\* the labels are in strictly ascending order of their code points
Ascending(labels) ==
    \A k \in 1..(Len(labels) - 1) : StrLess(labels[k], labels[k + 1])

\* the catalog has an item without a category
HasNullLabel(chs) == \E p \in 1..Len(chs) : chs[p].category_name = None

DropLast(labels) == SubSeq(labels, 1, Len(labels) - 1)

\* the items listed under the header at h
ListedUnder(items, h) == {At(items, d).channel : d \in EntriesUnder(items, h)}

\* the items of the catalog carrying one of the labels
Labelled(chs, labels) ==
    {chs[p] : p \in {q \in 1..Len(chs) : chs[q].category_name \in labels}}

LastHeader(items) ==
    CHOOSE h \in HeaderIndices(items) : \A g \in HeaderIndices(items) : g <= h

\* C29 as stated: the headers are in ascending lexical order of their
\* labels, except that the bucket of the items whose label is null, when
\* there are such items, comes last; the list is the same when built again.
C29_HeadersSortedNullLast ==
    InSession =>
        LET labels == HeaderLabels(display_items)
        IN /\ display_items = CreateDisplayList(channels)
           /\ IF HasNullLabel(channels)
              THEN /\ Ascending(DropLast(labels))
                   /\ Labelled(channels, {None})
                          \subseteq ListedUnder(display_items,
                                                LastHeader(display_items))
              ELSE Ascending(labels)

\* C29, amended: the headers other than the one labelled with the
\* Uncategorized literal are in ascending order of the code points of their
\* labels; the header labelled with the literal exists exactly when some
\* item has a null label or the literal as its label, it lists all of those
\* items, and it is the last header; the list is the same when built again.
C29_HeadersSortedSentinelLast ==
    InSession =>
        LET labels == HeaderLabels(display_items)
            bucket == Labelled(channels, {None, UNCATEGORIZED})
        IN /\ display_items = CreateDisplayList(channels)
           /\ IF bucket = {}
              THEN /\ Ascending(labels)
                   /\ \A k \in 1..Len(labels) : labels[k] # UNCATEGORIZED
              ELSE /\ Ascending(DropLast(labels))
                   /\ \A k \in 1..(Len(labels) - 1) :
                          labels[k] # UNCATEGORIZED
                   /\ labels[Len(labels)] = UNCATEGORIZED
                   /\ ListedUnder(display_items, LastHeader(display_items))
                          = bucket

\* a list with the headers General, then the label that sorts after the
\* literal, then the literal over an item without a category
C29_Witness ==
    /\ pc = "browsing"
    /\ HeaderLabels(display_items) = <<"General", ZATSUDAN, UNCATEGORIZED>>
    /\ HasNullLabel(channels)
    /\ Len(channels) = 4

\* the channels of the entries that follow the header at h up to the next
\* header, in display order
SeqUnder(items, h) ==
    [k \in 1..Cardinality(EntriesUnder(items, h)) |-> At(items, h + k).channel]

\* the channels of the catalog with a given category label, in catalog order
WithLabel(chs, label) ==
    SelectSeq(chs, LAMBDA ch : ch.category_name = label)

\* the label under which a channel is grouped
KeyOf(ch) ==
    IF ch.category_name = None THEN UNCATEGORIZED ELSE ch.category_name

WithKey(chs, label) == SelectSeq(chs, LAMBDA ch : KeyOf(ch) = label)

\* C30 as stated, a category being the items that share a category label,
\* or the items whose label is null: each category of the catalog has
\* exactly one header whose following run of channel entries is that
\* category's channels in catalog order, and every header is such a header.
C30_OneHeaderPerLabel ==
    InSession =>
        LET labels == {channels[p].category_name : p \in 1..Len(channels)}
        IN /\ At(display_items, 0).type = "category_header"
           /\ \A c \in labels :
                  Cardinality({h \in HeaderIndices(display_items) :
                                   SeqUnder(display_items, h)
                                       = WithLabel(channels, c)}) = 1
           /\ \A h \in HeaderIndices(display_items) :
                  \E c \in labels :
                      SeqUnder(display_items, h) = WithLabel(channels, c)

\* C30, amended: a category being the items grouped under one label, with
\* the items whose label is null grouped under the Uncategorized literal
\* together with the items labelled with that literal: each category has
\* exactly one header, that header carries the category's label and is
\* followed at once by the category's channels, contiguously and in catalog
\* order, and no header is without channels.
C30_OneHeaderPerKey ==
    InSession =>
        LET keys == {KeyOf(channels[p]) : p \in 1..Len(channels)}
        IN /\ At(display_items, 0).type = "category_header"
           /\ \A c \in keys :
                  Cardinality({h \in HeaderIndices(display_items) :
                                   At(display_items, h).category_name = c})
                      = 1
           /\ \A h \in HeaderIndices(display_items) :
                  LET label == At(display_items, h).category_name
                  IN /\ label \in keys
                     /\ SeqUnder(display_items, h) = WithKey(channels, label)

\* a list where the General header gathers two channels that are apart in
\* the catalog and the last header gathers a channel without a category and
\* one labelled with the literal
C30_Witness ==
    /\ pc = "browsing"
    /\ [p \in 1..Len(channels) |-> channels[p].category_name]
           = <<"General", None, "General", UNCATEGORIZED>>
    /\ HeaderLabels(display_items) = <<"General", UNCATEGORIZED>>
    /\ Len(SeqUnder(display_items, 0)) = 2

----------------------------------------------------------------------------
(* The warnings and the persisted preference *)

\* config.json as a run that answered s at the warning has left it
SuppressedConfig == DictSet(DefaultConfig, "show_message_count_warning", FALSE)

\* the selection call in either mode, with the preference at its default
\* or persisted as false
InitWarnings ==
    /\ channels \in FailureCatalogs
    /\ config \in {DefaultConfig, SuppressedConfig}
    /\ hist = Untracked
    /\ pc = "start"
    /\ InitLocals

SpecWarnings == InitWarnings /\ [][NextFailures]_vars

\* a warning prompt is on the screen
WarningShown == pc \in {"warning", "cli_confirm"}

\* C32 as stated: on every selection path no warning prompt is shown when
\* show_message_count_warning is persisted as false.
C32_NoWarningWhenSuppressed ==
    WarningShown => DictGet(config, "show_message_count_warning", TRUE)

\* the line-oriented selector has handed back a selection
CliReturned == pc = "done" /\ outcome = "Confirmed" /\ cli_entries > 0

\* the confirmation of the line-oriented selector was asked and not given
CliRefused == confirm # Unset /\ confirm # <<"y">>

\* C31: the line-oriented selector never returns a selection whose
\* estimated_messages sum above the threshold unless its confirmation was
\* asked and answered y, and every catalog whose sum is above the threshold
\* is asked about; a refused confirmation ends the call with an empty
\* result.
C31_CliConfirmsLargeSelection ==
    /\ (CliReturned /\ TotalEstimated(result) > WARNING_THRESHOLD) =>
           confirm = <<"y">>
    /\ (pc = "cli_select" /\ TotalEstimated(channels) > WARNING_THRESHOLD) =>
           confirm = <<"y">>
    /\ CliRefused =>
           /\ pc = "done"
           /\ outcome = "Declined"
           /\ result = <<>>

\* two of three channels were returned, 60000 messages together, after the
\* confirmation was given
C31_Witness ==
    /\ CliReturned
    /\ Len(channels) = 3
    /\ Len(result) = 2
    /\ TotalEstimated(result) > WARNING_THRESHOLD
    /\ confirm = <<"y">>

----------------------------------------------------------------------------
(* What each key leaves alone *)

NavigationKeys == UpKeys \cup DownKeys \cup LeftKeys \cup RightKeys

\* the step is one turn of the loop of the checkbox UI that stays in it
LoopTurn == InSession /\ InSession'

\* the step dispatches a toggle key, or a navigation key
TogglePressed == pc = "browsing" /\ key' \in ToggleKeys \cup AllKeys

NavigationPressed == pc = "browsing" /\ key' \in NavigationKeys

\* C33: the checked flags and the global flag change only in a turn that
\* dispatches Space or A, and the cursor only in a turn that dispatches a
\* navigation key: navigation keys, unrecognised keys and the redraw of
\* every turn leave the flags alone, and Space and A leave the cursor
\* alone.
C33_FrameOfKeys ==
    [][/\ (LoopTurn /\ ~TogglePressed) =>
              /\ checked' = checked
              /\ all_checked' = all_checked
       /\ (LoopTurn /\ ~NavigationPressed) => cursor' = cursor
       /\ TogglePressed => cursor' = cursor
       /\ (NavigationPressed \/ (pc = "browsing" /\ key' \in OtherKeys)) =>
              /\ checked' = checked
              /\ all_checked' = all_checked]_vars

\* an unrecognised key has been pressed with the cursor on the second page
\* and channels checked
C33_Witness ==
    /\ pc = "browsing"
    /\ key \in OtherKeys
    /\ current_page = 1
    /\ CountChecked(checked) = 2

\* C34: Space on a category header leaves the checked flag of every item
\* listed under any other header as it was.
C34_CategoryToggleFrame ==
    [][\A h \in HeaderIndices(display_items) :
          SpaceOnHeader(h) =>
              \A g \in HeaderIndices(display_items) \ {h} :
                  \A p \in MembersUnder(display_items, g) :
                      checked'[p] = checked[p]]_vars

\* Space on a header has checked both of its channels while a channel under
\* another header stays unchecked
C34_Witness ==
    /\ pc = "browsing"
    /\ key \in ToggleKeys
    /\ IsHeader(Target)
    /\ Cardinality(MembersUnder(display_items, Target)) = 2
    /\ Aggregate(checked, MembersUnder(display_items, Target)) = "all"
    /\ CountChecked(checked) = 2
    /\ Len(channels) = 3

\* the cursors of lists of up to MaxChannels + 1 entries
Cursors == (0..((MaxChannels + 1) \div ITEMS_PER_PAGE + 1))
               \X (0..ITEMS_PER_PAGE)

\* C35: away from the two ends of the list Up and Down undo each other:
\* after Down pressed anywhere but on the last entry of the last page, Up
\* leads back to the cursor Down was pressed at, and after Up pressed
\* anywhere but on the All entry, Down leads back, page crossings included.
C35_UpDownInverse ==
    [][\A c \in Cursors :
          /\ (DownPressed /\ ~OnLastEntry /\ cursor = c) =>
                 /\ (ENABLED (UpKey /\ cursor' = c))'
                 /\ ~(ENABLED (UpKey /\ cursor' # c))'
          /\ (UpPressed /\ ~OnAll /\ cursor = c) =>
                 /\ (ENABLED (DownKey /\ cursor' = c))'
                 /\ ~(ENABLED (DownKey /\ cursor' # c))']_vars

\* Down has crossed from the first page to the top of the second of three
C35_Witness ==
    /\ pc = "browsing"
    /\ key \in DownKeys
    /\ cursor = <<1, 0>>
    /\ total_pages = 3

\* C36: the key pressed while the "select at least one channel" notice is
\* shown only takes the notice away: the loop is back in Browsing with the
\* same cursor, the same flags, no outcome and no result, and the key is not
\* dispatched.
C36_NoticeKeyConsumed ==
    [][pc = "notice" =>
          /\ pc' = "browsing"
          /\ cursor' = cursor
          /\ checked' = checked
          /\ all_checked' = all_checked
          /\ outcome' = outcome
          /\ outcome' = "Pending"
          /\ result' = result
          /\ terminal' = terminal
          /\ key' = key]_vars

\* the notice has been dismissed on the second page: the loop is in
\* Browsing and the last key dispatched is still the Enter that raised it
C36_Witness ==
    /\ pc = "browsing"
    /\ key \in ConfirmKeys
    /\ CountChecked(checked) = 0
    /\ current_page = 1
    /\ outcome = "Pending"

\* the answers that start the checkbox UI, and those that abandon the call
StartAnswers == {"y", "s"}

AbortAnswers == {"n", "\n", "\r", "ESC", "INTERRUPT"}

\* C38: at the warning prompt of the interactive selector y and s start the
\* checkbox UI and nothing else does; n, Enter, Esc, an interrupt or the end
\* of input end the call with an empty result and the UI not started; any
\* other key leaves the prompt waiting with the persisted preference and the
\* outcome as they were.
C38_WarningAnswers ==
    [][pc = "warning" =>
          /\ response' \in StartAnswers =>
                 /\ pc' = "browsing"
                 /\ ui_entries' = ui_entries + 1
                 /\ outcome' = "Pending"
          /\ pc' = "browsing" => response' \in StartAnswers
          /\ ui_entries' # ui_entries => response' \in StartAnswers
          /\ response' \in AbortAnswers =>
                 /\ pc' = "done"
                 /\ outcome' = "Declined"
                 /\ result' = <<>>
                 /\ ui_entries' = ui_entries
                 /\ terminal' = "released"
          /\ response' \notin StartAnswers \cup AbortAnswers =>
                 /\ pc' = "warning"
                 /\ config' = config
                 /\ outcome' = outcome
                 /\ result' = result
                 /\ ui_entries' = ui_entries]_vars

\* a key that is no answer has been pressed and the prompt is still waiting
C38_Witness ==
    /\ pc = "warning"
    /\ response = "x"
    /\ outcome = "Pending"
    /\ ui_entries = 0

----------------------------------------------------------------------------
(* The configuration form (config_ui, _config_form_ui) and the main menu    *)
(* loop that opens it and the selection call in turn.  pc is "menu" at the  *)
(* main menu and "config_form" at the getch() of the form.                   *)

MaxEdit == 1        \* characters in edit_text
MaxEdited == 1      \* fields whose value differs from the loaded one

FieldNames ==
    <<"token", "output_file", "after_date", "before_date", "limit", "mode">>

FieldTypes == <<"password", "text", "text", "text", "number", "select">>

Options == <<"fetch-channels", "interactive", "cli">>

\* str(n) for n >= 0
RECURSIVE StrOfInt(_)
StrOfInt(n) ==
    LET digit == CHOOSE c \in Digits : DigitValue(c) = n % 10
    IN IF n < 10 THEN <<digit>> ELSE Append(StrOfInt(n \div 10), digit)

\* str(config.get("limit", ""))
StrOfLimit(limit) ==
    IF limit.kind = "int" THEN StrOfInt(limit.value) ELSE limit.value

\* the "value" of the six fields as the form starts
LoadFields(cfg) ==
    <<DictGet(cfg, "token", <<>>),
      DictGet(cfg, "output_file", DEFAULT_OUTPUT_FILE),
      DictGet(cfg, "after_date", <<>>),
      DictGet(cfg, "before_date", <<>>),
      StrOfLimit(DictGet(cfg, "limit", StrValue(<<>>))),
      DictGet(cfg, "mode", "interactive")>>

\* what F10 makes of one field
ResultValue(f, value) ==
    IF FieldTypes[f + 1] = "select" THEN value
    ELSE IF FieldTypes[f + 1] = "number"
    THEN IF value = <<>> THEN StrValue(<<>>)
         ELSE IF IsInt(value) THEN IntValue(IntOf(value))
         ELSE StrValue(<<>>)
    ELSE value

\* result_config: one key per field and no other key
ResultConfig(values) ==
    [name \in {FieldNames[f] : f \in 1..Len(FieldNames)} |->
        LET f == CHOOSE g \in 1..Len(FieldNames) : FieldNames[g] = name
        IN ResultValue(f - 1, values[f])]

\* the keys pressed in the form, and their codes
FormChars == {"7", "a", "j", "k"}

FormKeys ==
    {"ESC", "F10", "TAB", "KEY_UP", "KEY_DOWN", "KEY_LEFT", "ENTER",
     "KEY_BACKSPACE"} \cup FormChars

KeyCode(k) ==
    CASE k = "ESC" -> 27 [] k = "F10" -> 274 [] k = "TAB" -> 9
      [] k = "KEY_UP" -> 259 [] k = "KEY_DOWN" -> 258 [] k = "KEY_LEFT" -> 260
      [] k = "ENTER" -> 10 [] k = "KEY_BACKSPACE" -> 263
      [] k = "7" -> 55 [] k = "a" -> 97 [] k = "j" -> 106 [] k = "k" -> 107

FormUpKeys == {"KEY_UP", "k"}

FormDownKeys == {"KEY_DOWN", "j"}

\* the keys that reach the last branch of the dispatch
FormTextKeys ==
    FormKeys \ ({"ESC", "F10", "TAB", "ENTER"} \cup FormUpKeys
                    \cup FormDownKeys)

\* curses.wrapper(self._config_form_ui) up to the first getch()
FormOpen ==
    /\ pc' = "config_form"
    /\ fields' = LoadFields(config)
    /\ current_field' = 0
    /\ editing' = FALSE
    /\ edit_text' = <<>>
    /\ terminal' = "acquired"

\* _config_form_ui returns: its locals are gone and the screen is released
FormClose ==
    /\ pc' = "menu"
    /\ fields' = <<>>
    /\ current_field' = 0
    /\ editing' = FALSE
    /\ edit_text' = <<>>
    /\ terminal' = "released"

\* what no key of the form touches
selection_call ==
    <<channels, session, response, typed, message, outcome, result, hist,
      raised, thrown, ui_entries, cli_entries, confirm>>

FormKey(keys) ==
    /\ pc = "config_form"
    /\ key' \in keys

FieldType == FieldTypes[current_field + 1]

FieldValue == fields[current_field + 1]

SetFieldValue(value) ==
    fields' = [fields EXCEPT ![current_field + 1] = value]

\* the position of the value among the options, as options.index gives it
OptionIndex(value) == (CHOOSE n \in 1..Len(Options) : Options[n] = value) - 1

\* ESC
FormEscKey ==
    /\ FormKey({"ESC"})
    /\ FormClose
    /\ UNCHANGED <<config, selection_call>>

\* F10: without token or output file nothing happens; otherwise the fields
\* are turned into result_config, which config_ui saves
FormF10Key ==
    /\ FormKey({"F10"})
    /\ IF fields[1] = <<>> \/ fields[2] = <<>>
       THEN UNCHANGED <<config, pc, form, terminal>>
       ELSE /\ config' = ResultConfig(fields)
            /\ FormClose
    /\ UNCHANGED selection_call

\* TAB
FormTabKey ==
    /\ FormKey({"TAB"})
    /\ IF ~editing
       THEN current_field' = (current_field + 1) % Len(FieldNames)
       ELSE UNCHANGED current_field
    /\ UNCHANGED <<config, pc, fields, editing, edit_text, terminal,
                   selection_call>>

\* the Up and Down branches: the field moves, or the option while a select
\* field is edited; while another field is edited nothing happens
FormMove(step) ==
    IF ~editing
    THEN /\ current_field' = (current_field + step) % Len(FieldNames)
         /\ UNCHANGED fields
    ELSE IF FieldType = "select"
    THEN /\ SetFieldValue(
                Options[((OptionIndex(FieldValue) + step) % Len(Options)) + 1])
         /\ UNCHANGED current_field
    ELSE UNCHANGED <<current_field, fields>>

\* KEY_UP / k / K
FormUpKey ==
    /\ FormKey(FormUpKeys)
    /\ FormMove(-1)
    /\ UNCHANGED <<config, pc, editing, edit_text, terminal, selection_call>>

\* KEY_DOWN / j / J
FormDownKey ==
    /\ FormKey(FormDownKeys)
    /\ FormMove(1)
    /\ UNCHANGED <<config, pc, editing, edit_text, terminal, selection_call>>

\* the fields whose value is not the one the form started with
EditedFields ==
    {f \in 1..Len(fields) : fields[f] # LoadFields(config)[f]}

\* Enter: commits the edit buffer, or starts editing the current field
FormEnterKey ==
    /\ FormKey({"ENTER"})
    /\ IF editing
       THEN /\ IF FieldType # "select" THEN SetFieldValue(edit_text)
               ELSE UNCHANGED fields
            /\ editing' = FALSE
            /\ UNCHANGED edit_text
       ELSE /\ \/ (current_field + 1) \in EditedFields
               \/ Cardinality(EditedFields) < MaxEdited
            /\ editing' = TRUE
            /\ edit_text' = IF FieldType = "select" THEN edit_text
                            ELSE FieldValue
            /\ UNCHANGED fields
    /\ UNCHANGED <<config, pc, current_field, terminal, selection_call>>

\* any other key: while a text, password or number field is edited,
\* KEY_BACKSPACE or 127 drops the last character and a code from 32 to 126
\* appends chr(key)
FormTextKey ==
    /\ FormKey(FormTextKeys)
    /\ IF editing /\ FieldType # "select"
       THEN IF KeyCode(key') = 263 \/ KeyCode(key') = 127
            THEN edit_text' = SubSeq(edit_text, 1, Len(edit_text) - 1)
            ELSE IF 32 <= KeyCode(key') /\ KeyCode(key') <= 126
            THEN /\ Len(edit_text) < MaxEdit
                 /\ edit_text' = Append(edit_text, key')
            ELSE UNCHANGED edit_text
       ELSE UNCHANGED edit_text
    /\ UNCHANGED <<config, pc, fields, current_field, editing, terminal,
                   selection_call>>

\* config.json as the form saved it with a token and an output file of one
\* character and the given text in the limit field
FormConfig(limit) ==
    ResultConfig(<<<<"a">>, <<"a">>, <<>>, <<>>, limit, "interactive">>)

\* the form is open on its first field
InitForm ==
    /\ channels = <<>>
    /\ \/ config = FormConfig(<<>>)
       \/ config = FormConfig(<<"7">>)
    /\ hist = Untracked
    /\ pc = "config_form"
    /\ display_items = <<>>
    /\ channel_map = <<>>
    /\ total_pages = 0
    /\ checked = <<>>
    /\ all_checked = FALSE
    /\ current_page = 0
    /\ current_pos = 0
    /\ key = "none"
    /\ response = "none"
    /\ typed = <<>>
    /\ message = "none"
    /\ outcome = "Pending"
    /\ result = <<>>
    /\ terminal = "acquired"
    /\ raised = "none"
    /\ thrown = "none"
    /\ ui_entries = 0
    /\ cli_entries = 0
    /\ confirm = Unset
    /\ fields = LoadFields(config)
    /\ current_field = 0
    /\ editing = FALSE
    /\ edit_text = <<>>

NextForm ==
    \/ FormEscKey
    \/ FormF10Key
    \/ FormTabKey
    \/ FormUpKey
    \/ FormDownKey
    \/ FormEnterKey
    \/ FormTextKey

SpecForm == InitForm /\ [][NextForm]_vars

----------------------------------------------------------------------------
(* The main menu loop (main): the selection call and the configuration form *)
(* on one config.json.  pc is "menu" at main_menu() and "exited" once main  *)
(* has returned.                                                             *)

\* action == "exit"
MenuExit ==
    /\ pc = "menu"
    /\ pc' = "exited"
    /\ UNCHANGED <<channels, config, session, key, response, typed, message,
                   outcome, result, hist, env, confirm, form>>

\* action == "export_interactive": without a token or without channel
\* information the loop continues, otherwise the selection call starts
MenuExportInteractive ==
    /\ pc = "menu"
    /\ IF DictGet(config, "token", <<>>) = <<>> \/ channels = <<>>
       THEN UNCHANGED pc
       ELSE pc' = "start"
    /\ UNCHANGED <<channels, config, session, key, response, typed, message,
                   outcome, result, hist, env, confirm, form>>

\* action == "config"
MenuConfig ==
    /\ pc = "menu"
    /\ FormOpen
    /\ key' = "none"
    /\ UNCHANGED <<config, selection_call>>

\* the selection call is over: on a KeyboardInterrupt main returns, and so
\* it does when ask_continue() is answered no; otherwise the loop continues
\* and what the call left behind is gone
AskContinue ==
    /\ pc = "done"
    /\ \/ pc' = "exited" /\ UNCHANGED <<session, key, response, typed,
                                        message, outcome, result, env,
                                        confirm, form>>
       \/ /\ raised # "KeyboardInterrupt"
          /\ pc' = "menu"
          /\ confirm' = Unset
          /\ fields' = <<>>
          /\ current_field' = 0
          /\ editing' = FALSE
          /\ edit_text' = <<>>
          /\ display_items' = <<>>
          /\ channel_map' = <<>>
          /\ total_pages' = 0
          /\ checked' = <<>>
          /\ all_checked' = FALSE
          /\ current_page' = 0
          /\ current_pos' = 0
          /\ key' = "none"
          /\ response' = "none"
          /\ typed' = <<>>
          /\ message' = "none"
          /\ outcome' = "Pending"
          /\ result' = <<>>
          /\ terminal' = "released"
          /\ raised' = "none"
          /\ thrown' = "none"
          /\ ui_entries' = 0
          /\ cli_entries' = 0
    /\ UNCHANGED <<channels, config, hist>>

\* one catalog above the warning threshold, and config.json as the form
\* saved it; in the form the user looks through the fields and saves or
\* leaves without editing
InitConfig ==
    /\ channels = MakeCatalog(<<"General">>, 60000)
    /\ config = FormConfig(<<>>)
    /\ hist = Untracked
    /\ pc = "menu"
    /\ InitLocals

NextConfig ==
    \/ MenuExit
    \/ MenuExportInteractive
    \/ MenuConfig
    \/ AskContinue
    \/ Next
    \/ FormEscKey
    \/ FormF10Key
    \/ FormTabKey

SpecConfig == InitConfig /\ [][NextConfig]_vars

\* the preference is persisted as false
Suppressed == ~DictGet(config, "show_message_count_warning", TRUE)

\* C37: once the suppress-warning preference has been persisted it stays
\* suppressed across every later sequence of operations on the same
\* config.json, saving the configuration form included: later interactive
\* sessions show no warning prompt.
C37_SuppressedForGood ==
    [][Suppressed => (Suppressed' /\ pc' # "warning")]_vars

\* the keys whose code is one of 32..126
PrintableKeys == {k \in FormKeys : 32 <= KeyCode(k) /\ KeyCode(k) <= 126}

\* a text, password or number field is being edited
EditingText ==
    /\ pc = "config_form"
    /\ editing
    /\ FieldType # "select"

\* C39: in the configuration form, while a text, password or number field
\* is being edited, every printable key (codes 32..126) appends its
\* character to the edit buffer.
C39_PrintableKeyAppends ==
    [][(EditingText /\ key' \in PrintableKeys)
           => edit_text' = Append(edit_text, key')]_vars

====
